---- MODULE Spec2Model ----
(***************************************************************************)
(* A model of the vurlrs interpreter: the per-line parser and the block    *)
(* resolver (parse.rs), the evaluator, the driving loops and the call      *)
(* frames (run.rs) and the builtin table (builtins.rs).                    *)
(*                                                                         *)
(* Conventions.  Line indices are 0-based as in the source; sequences are  *)
(* 1-based, so line i of a program is lines[i + 1].  Strings are TLA+      *)
(* strings, read character by character with SubSeq.  A Number is an f64   *)
(* in the source; the model keeps to the integers the programs below       *)
(* compute, on which f64 arithmetic is exact.                              *)
(***************************************************************************)
EXTENDS Integers, Sequences, FiniteSets, TLC

VARIABLES code, phase, lines, globals, functions, heap, frames, error

vars == <<code, phase, lines, globals, functions, heap, frames, error>>

(***************************************************************************)
(* Strings                                                                 *)
(***************************************************************************)
CharAt(s, p) == SubSeq(s, p, p)

starts_with(s, c) == Len(s) >= 1 /\ CharAt(s, 1) = c

ends_with(s, c) == Len(s) >= 1 /\ CharAt(s, Len(s)) = c

Digits == <<"0", "1", "2", "3", "4", "5", "6", "7", "8", "9">>

IsDigit(c) == \E d \in 1..10 : Digits[d] = c

DigitVal(c) == (CHOOSE d \in 1..10 : Digits[d] = c) - 1

RECURSIVE DigitsToNat(_, _, _)
DigitsToNat(s, p, acc) ==
    IF p > Len(s) THEN acc
    ELSE DigitsToNat(s, p + 1, acc * 10 + DigitVal(CharAt(s, p)))

AllDigits(s, from) ==
    /\ Len(s) >= from
    /\ \A p \in from..Len(s) : IsDigit(CharAt(s, p))

\* str::parse::<f64> on the decimal integers: an optional sign, then digits.
parse_f64(s) ==
    IF AllDigits(s, 1) THEN [ok |-> TRUE, n |-> DigitsToNat(s, 1, 0)]
    ELSE IF starts_with(s, "-") /\ AllDigits(s, 2)
         THEN [ok |-> TRUE, n |-> 0 - DigitsToNat(s, 2, 0)]
    ELSE IF starts_with(s, "+") /\ AllDigits(s, 2)
         THEN [ok |-> TRUE, n |-> DigitsToNat(s, 2, 0)]
    ELSE [ok |-> FALSE, n |-> 0]

RECURSIVE NatToStr(_)
NatToStr(n) ==
    IF n < 10 THEN Digits[n + 1]
    ELSE NatToStr(n \div 10) \o Digits[(n % 10) + 1]

\* Display of an f64 that holds an integer.
fmt_f64(n) == IF n < 0 THEN "-" \o NatToStr(0 - n) ELSE NatToStr(n)

RECURSIVE trim_start(_)
trim_start(s) == IF starts_with(s, " ") THEN trim_start(SubSeq(s, 2, Len(s))) ELSE s

RECURSIVE trim_end(_)
trim_end(s) == IF ends_with(s, " ") THEN trim_end(SubSeq(s, 1, Len(s) - 1)) ELSE s

trim(s) == trim_end(trim_start(s))

(***************************************************************************)
(* parse.rs: Expr and Command                                              *)
(***************************************************************************)
ECommand(name, args) == [e |-> "Command", s |-> name, n |-> 0, args |-> args]

ELiteral(s) == [e |-> "Literal", s |-> s, n |-> 0, args |-> <<>>]

ENumber(n) == [e |-> "Number", s |-> "", n |-> n, args |-> <<>>]

EVariable(s) == [e |-> "Variable", s |-> s, n |-> 0, args |-> <<>>]

ELineptr(l) == [e |-> "Lineptr", s |-> "", n |-> l, args |-> <<>>]

\* Option<Command>::None, a blank or comment line
NoLine == [e |-> "None", s |-> "", n |-> 0, args |-> <<>>]

PErr(kind) == [ok |-> FALSE, err |-> kind, pos |-> 0, cmd |-> NoLine]

POk(cmd, pos) == [ok |-> TRUE, err |-> "", pos |-> pos, cmd |-> cmd]

\* The quoted-literal loop: p is the next character to read, acc the text so far.
RECURSIVE quoted(_, _, _)
quoted(s, p, acc) ==
    IF p > Len(s) THEN PErr("StringEOL")
    ELSE IF /\ CharAt(s, p) = "\""
            /\ (p + 1 > Len(s) \/ CharAt(s, p + 1) \in {")", " "})
         THEN POk(ELiteral(acc), p + 1)
    ELSE quoted(s, p + 1, acc \o CharAt(s, p))

\* The bare-token loop: p is the character peeked at.
RECURSIVE bare(_, _, _, _)
bare(s, p, acc, parenlevel) ==
    IF p > Len(s) THEN [s |-> acc, pos |-> p]
    ELSE LET c == CharAt(s, p) IN
         IF c = "(" THEN bare(s, p + 1, acc \o c, parenlevel + 1)
         ELSE IF c = ")" /\ parenlevel > 0 THEN bare(s, p + 1, acc \o c, parenlevel - 1)
         ELSE IF c \in {" ", ")"} THEN [s |-> acc, pos |-> p]
         ELSE bare(s, p + 1, acc \o c, parenlevel)

token(s) ==
    IF starts_with(s, "[") /\ ends_with(s, "]") THEN EVariable(SubSeq(s, 2, Len(s) - 1))
    ELSE IF parse_f64(s).ok THEN ENumber(parse_f64(s).n)
    ELSE ELiteral(s)

command_of(args, pos) ==
    IF args = <<>> THEN PErr("EmptyCommand")
    ELSE IF args[1].e = "Literal" THEN POk(ECommand(args[1].s, Tail(args)), pos)
    ELSE PErr("NameIsNotString")

RECURSIVE parse_command_loop(_, _, _, _)
parse_command_loop(s, p, is_top_level, args) ==
    IF p > Len(s)
    THEN IF is_top_level THEN command_of(args, p) ELSE PErr("UnclosedParen")
    ELSE LET c == CharAt(s, p) IN
         IF c = "("
         THEN LET r == parse_command_loop(s, p + 1, FALSE, <<>>) IN
              IF r.ok THEN parse_command_loop(s, r.pos, is_top_level, Append(args, r.cmd))
              ELSE r
         ELSE IF c = "\""
         THEN LET r == quoted(s, p + 1, "") IN
              IF r.ok THEN parse_command_loop(s, r.pos, is_top_level, Append(args, r.cmd))
              ELSE r
         ELSE IF c = " " THEN parse_command_loop(s, p + 1, is_top_level, args)
         ELSE IF c = ")"
         THEN IF is_top_level THEN PErr("UnexpectedParen") ELSE command_of(args, p + 1)
         ELSE LET b == bare(s, p + 1, c, 0) IN
              parse_command_loop(s, b.pos, is_top_level, Append(args, token(b.s)))

parse_command(s, is_top_level) == parse_command_loop(s, 1, is_top_level, <<>>)

(***************************************************************************)
(* parse.rs: the block resolver                                            *)
(***************************************************************************)
\* The command names that open a block.
Openers == {"if", "while", "define", "_func"}

ParseError(kind, lineno) == [ok |-> FALSE, err |-> kind, line |-> lineno, commands |-> <<>>]

ParseOk(commands) == [ok |-> TRUE, err |-> "", line |-> 0, commands |-> commands]

\* resolve_end with the opener pointed one line past its `end`.
resolve_end_past(commands, cmd, startno, lineno) ==
    LET startline == commands[startno + 1] IN
    Append([commands EXCEPT ![startno + 1].args = Append(@, ELineptr(lineno + 1))],
           [cmd EXCEPT !.args = Append(@, ELineptr(startno)),
                       !.s = cmd.s \o " " \o startline.s])

\* What an `end` line does to the lines parsed so far and to itself.
resolve_end(commands, cmd, startno, lineno) ==
    LET startline == commands[startno + 1] IN
    Append([commands EXCEPT ![startno + 1].args = Append(@, ELineptr(lineno))],
           [cmd EXCEPT !.args = Append(@, ELineptr(startno)),
                       !.s = cmd.s \o " " \o startline.s])

\* parse_finish without the check for open blocks.
parse_finish_lenient(stack, commands) == ParseOk(commands)

\* After the last line: a block still open is an error.
parse_finish(stack, commands) ==
    IF stack # <<>> THEN ParseError("UnclosedBlock", 0) ELSE ParseOk(commands)

RECURSIVE parse_lines(_, _, _, _)
parse_lines(text, lineno, stack, commands) ==
    IF lineno >= Len(text) THEN parse_finish(stack, commands)
    ELSE LET line == trim(text[lineno + 1]) IN
         IF line = "" \/ starts_with(line, "#")
         THEN parse_lines(text, lineno + 1, stack, Append(commands, NoLine))
         ELSE LET r == parse_command(line, TRUE) IN
              IF ~r.ok THEN ParseError(r.err, lineno)
              ELSE IF r.cmd.s \in Openers
              THEN parse_lines(text, lineno + 1, Append(stack, lineno),
                               Append(commands, r.cmd))
              ELSE IF r.cmd.s = "end"
              THEN IF stack = <<>> THEN ParseError("UnexpectedEnd", 0)
                   ELSE parse_lines(text, lineno + 1, SubSeq(stack, 1, Len(stack) - 1),
                                    resolve_end(commands, r.cmd, stack[Len(stack)], lineno))
              ELSE parse_lines(text, lineno + 1, stack, Append(commands, r.cmd))

\* What parse does with one line before it looks at the blocks: nothing for a
\* blank or comment line, parse_command on the trimmed text otherwise.
parse_line(text) ==
    LET line == trim(text) IN
    IF line = "" \/ starts_with(line, "#") THEN [ok |-> TRUE, err |-> "", cmd |-> NoLine]
    ELSE LET r == parse_command(line, TRUE) IN [ok |-> r.ok, err |-> r.err, cmd |-> r.cmd]

\* The errors of one line, which ParseError::Lined tags with a line.
ParseErrorLine == {"StringEOL", "NameIsNotString", "UnclosedParen", "UnexpectedParen", "EmptyCommand"}

\* The line number a tagged parse error shows: Display writes the field of
\* Lined as it is.
lined_display(kind) == kind.n

\* The line number a run-time error shows: Display writes line + 1.
run_error_display(line) == line + 1

\* parse(code): code is the source text split at '\n', one string per line.
parse(text) == parse_lines(text, 0, <<>>, <<>>)

(***************************************************************************)
(* run.rs: Value, Function, RunErrorKind                                   *)
(***************************************************************************)
StringVal(s) == [t |-> "String", s |-> s, n |-> 0]

Number(n) == [t |-> "Number", s |-> "", n |-> n]

\* A list value is a handle: the index of its backing sequence in heap.
List(h) == [t |-> "List", s |-> "", n |-> h]

Lineptr(l) == [t |-> "Lineptr", s |-> "", n |-> l]

\* impl Default for Value
Default == StringVal("")

Function(lineno, variadic, arguments) ==
    [lineno |-> lineno, variadic |-> variadic, arguments |-> arguments]

\* A RunErrorKind other than Wrap: k is the variant, n, m, s and v its fields.
Kind(k, n, m, s, v) == [k |-> k, n |-> n, m |-> m, s |-> s, v |-> v]

Return(v) == Kind("Return", 0, 0, "", v)

ValueError(n) == Kind("ValueError", n, 0, "", Default)

IsNotNumber(v) == Kind("IsNotNumber", 0, 0, "", v)

IsNotList(v) == Kind("IsNotList", 0, 0, "", v)

IndexError(index, len) == Kind("IndexError", index, len, "", Default)

NameError(s) == Kind("NameError", 0, 0, s, Default)

FuncDefined(s) == Kind("FuncDefined", 0, 0, s, Default)

UserError(s) == Kind("UserError", 0, 0, s, Default)

Simple(k) == Kind(k, 0, 0, "", Default)

NoError == [trace |-> <<>>, kind |-> Simple("None")]

\* HashMap: a function from the keys present to their values.
EmptyMap == [k \in {} |-> Default]

insert(map, k, v) == [x \in (DOMAIN map) \cup {k} |-> IF x = k THEN v ELSE map[x]]

Last(seq) == seq[Len(seq)]

Front(seq) == SubSeq(seq, 1, Len(seq) - 1)

(***************************************************************************)
(* The part of State a command can read and write: the maps, the program   *)
(* counter of the running frame, the list storage, and the lists that an   *)
(* enclosing `_apply` holds mutably borrowed (RefCell::borrow_mut).        *)
(***************************************************************************)
Ok(st, v) == [res |-> "Ok", st |-> st, v |-> v, kind |-> Simple("None"),
              func |-> Function(0, TRUE, <<>>), locals |-> EmptyMap]

Err(st, kind) == [res |-> "Err", st |-> st, v |-> Default, kind |-> kind,
                  func |-> Function(0, TRUE, <<>>), locals |-> EmptyMap]

\* The process aborts: a panic.
Panic(st) == [res |-> "Panic", st |-> st, v |-> Default, kind |-> Simple("None"),
              func |-> Function(0, TRUE, <<>>), locals |-> EmptyMap]

\* A user function is entered: a call frame is to be created.
Invoke(st, func, locals) == [res |-> "Invoke", st |-> st, v |-> Default,
                             kind |-> Simple("None"), func |-> func, locals |-> locals]

\* Rc::from(RefCell::from(items)): a new backing sequence.
alloc(st, items) == [st EXCEPT !.heap = Append(@, items)]

new_handle(st) == Len(st.heap) + 1

(***************************************************************************)
(* builtins.rs: conversions                                                *)
(***************************************************************************)
frombool(b) == Number(IF b THEN 1 ELSE 0)

\* Value::tonum: res is "Ok", "Err" (IsNotNumber) or "Panic" (a Lineptr).
tonum(v) ==
    IF v.t = "Number" THEN [res |-> "Ok", n |-> v.n]
    ELSE IF v.t = "String"
    THEN IF parse_f64(v.s).ok THEN [res |-> "Ok", n |-> parse_f64(v.s).n]
         ELSE [res |-> "Err", n |-> 0]
    ELSE IF v.t = "List" THEN [res |-> "Err", n |-> 0]
    ELSE [res |-> "Panic", n |-> 0]

\* impl Display for Value
RECURSIVE fmt_value(_, _)
RECURSIVE fmt_items(_, _, _)
fmt_items(items, i, hp) ==
    IF i > Len(items) THEN ""
    ELSE (IF i > 1 THEN "," ELSE "") \o fmt_value(items[i], hp)
         \o fmt_items(items, i + 1, hp)

fmt_value(v, hp) ==
    IF v.t = "String" THEN v.s
    ELSE IF v.t = "Number" THEN fmt_f64(v.n)
    ELSE IF v.t = "List" THEN "(" \o fmt_items(hp[v.n], 1, hp) \o ")"
    ELSE "(line " \o fmt_f64(v.n) \o ")"

\* Value::tostr
tostr(v, hp) == fmt_value(v, hp)

\* Display borrows every list it prints: it panics on one that is mutably borrowed.
RECURSIVE fmt_panics(_, _)
fmt_panics(v, st) ==
    /\ v.t = "List"
    /\ \/ v.n \in st.borrowed
       \/ \E i \in 1..Len(st.heap[v.n]) : fmt_panics(st.heap[v.n][i], st)

\* Value::toindex: floor, `as usize` (negative numbers become 0), checked_sub(1).
toindex(v) ==
    LET r == tonum(v) IN
    IF r.res # "Ok" THEN [res |-> r.res, kind |-> IsNotNumber(v), n |-> 0]
    ELSE IF r.n <= 0 THEN [res |-> "Err", kind |-> Simple("ZeroIndex"), n |-> 0]
    ELSE [res |-> "Ok", kind |-> Simple("None"), n |-> r.n - 1]

\* Value::tolist: borrow_mut, which panics when the list is already borrowed.
tolist(v, st) ==
    IF v.t # "List" THEN [res |-> "Err", kind |-> IsNotList(v), h |-> 0]
    ELSE IF v.n \in st.borrowed THEN [res |-> "Panic", kind |-> Simple("None"), h |-> 0]
    ELSE [res |-> "Ok", kind |-> Simple("None"), h |-> v.n]

\* What a failed conversion makes of the command.
fail(st, r) == IF r.res = "Panic" THEN Panic(st) ELSE Err(st, r.kind)

min(a, b) == IF a < b THEN a ELSE b

\* fn eq: lists are compared along zip, numbers as numbers, the rest as text.
RECURSIVE eq(_, _, _)
eq(a, b, hp) ==
    IF a.t = "List" /\ b.t = "List"
    THEN LET l == hp[a.n]
             m == hp[b.n]
         IN \A i \in 1..min(Len(l), Len(m)) : eq(l[i], m[i], hp)
    ELSE IF a.t = "Number" /\ b.t = "Number" THEN a.n = b.n
    ELSE tostr(a, hp) = tostr(b, hp)

(***************************************************************************)
(* builtins.rs: the code block commands, whose last argument is a Lineptr  *)
(***************************************************************************)
\* "end _cmd" | "end define": the closing `end` of a function signals a Return.
end_function_falls_through(st, args) ==
    IF Len(args) = 0 THEN Ok(st, Default)
    ELSE IF Len(args) = 1 THEN Err(st, Return(args[1]))
    ELSE Err(st, ValueError(1))

end_function(st, args) ==
    IF Len(args) = 0 THEN Err(st, Return(Default))
    ELSE IF Len(args) = 1 THEN Err(st, Return(args[1]))
    ELSE Err(st, ValueError(1))

\* "end while": lineno = lineptr - 1 on a usize.  With lineptr = 0 a build with
\* overflow checks panics and a build without them wraps to 2^64 - 1, the
\* residue the model writes -1: the only operation that follows is lineno += 1.
end_while(st, args, lineptr) ==
    IF Len(args) # 0 THEN Err(st, ValueError(0))
    ELSE IF lineptr = 0 /\ st.overflow_checks THEN Panic(st)
    ELSE Ok([st EXCEPT !.lineno = lineptr - 1], Default)

\* "end if"
end_if(st, args) ==
    IF Len(args) # 0 THEN Err(st, ValueError(0)) ELSE Ok(st, Default)

\* if_while with the test inverted: the body is skipped on a non-zero condition.
if_while_inverted(st, args, lineptr) ==
    IF Len(args) # 1 THEN Err(st, ValueError(1))
    ELSE LET cond == tonum(args[1]) IN
         IF cond.res # "Ok" THEN fail(st, [res |-> cond.res, kind |-> IsNotNumber(args[1])])
         ELSE IF cond.n # 0 THEN Ok([st EXCEPT !.lineno = lineptr], Default)
         ELSE Ok(st, Default)

\* "if" | "while"
if_while(st, args, lineptr) ==
    IF Len(args) # 1 THEN Err(st, ValueError(1))
    ELSE LET cond == tonum(args[1]) IN
         IF cond.res # "Ok" THEN fail(st, [res |-> cond.res, kind |-> IsNotNumber(args[1])])
         ELSE IF cond.n = 0 THEN Ok([st EXCEPT !.lineno = lineptr], Default)
         ELSE Ok(st, Default)

\* HashMap::insert(..).is_some(): the entry is written first, then the old one reported.
define_function(st, key, func, name, lineptr) ==
    LET st1 == [st EXCEPT !.functions = insert(@, key, func)] IN
    IF key \in DOMAIN st.functions THEN Err(st1, FuncDefined(name))
    ELSE Ok([st1 EXCEPT !.lineno = lineptr], Default)

\* "_cmd"
cmd_header(st, args, lineptr) ==
    IF Len(args) <= 1 THEN Err(st, ValueError(1))
    ELSE LET name == tostr(args[1], st.heap)
             arguments == [i \in 1..(Len(args) - 1) |-> tostr(args[i + 1], st.heap)]
             fixed == arguments[1] # "..."
         IN define_function(st, name,
                            Function(st.lineno + 1, ~fixed, IF fixed THEN arguments ELSE <<>>),
                            name, lineptr)

\* "define"
define_header(st, args, lineptr) ==
    IF Len(args) # 1 THEN Err(st, ValueError(1))
    ELSE LET name == tostr(args[1], st.heap) IN
         define_function(st, "call " \o name, Function(st.lineno + 1, TRUE, <<>>),
                         name, lineptr)

(***************************************************************************)
(* builtins.rs: the normal commands                                        *)
(***************************************************************************)
\* The first argument, in order, that tonum rejects; 0 when there is none.
first_bad(args) ==
    IF \A i \in 1..Len(args) : tonum(args[i]).res = "Ok" THEN 0
    ELSE CHOOSE i \in 1..Len(args) :
            /\ tonum(args[i]).res # "Ok"
            /\ \A j \in 1..(i - 1) : tonum(args[j]).res = "Ok"

bad_number(st, v) == fail(st, [res |-> tonum(v).res, kind |-> IsNotNumber(v)])

RECURSIVE fold(_, _, _, _)
fold(op, args, i, acc) ==
    IF i > Len(args) THEN acc
    ELSE fold(op, args, i + 1,
              IF op = "add" THEN acc + tonum(args[i]).n ELSE acc * tonum(args[i]).n)

\* "add" | "mul": reduce over the arguments, the unit when there are none.
add_mul(st, op, args) ==
    IF first_bad(args) # 0 THEN bad_number(st, args[first_bad(args)])
    ELSE Ok(st, Number(fold(op, args, 1, IF op = "add" THEN 0 ELSE 1)))

dyad_op(op, x, y) ==
    IF op = "sub" THEN x - y
    ELSE IF op = "lt" THEN (IF x < y THEN 1 ELSE 0)
    ELSE IF op = "gt" THEN (IF x > y THEN 1 ELSE 0)
    ELSE IF op = "lte" THEN (IF x <= y THEN 1 ELSE 0)
    ELSE (IF x >= y THEN 1 ELSE 0)

\* dyad that takes its first two arguments and ignores any more.
dyad_lenient(st, op, args) ==
    IF Len(args) < 2 THEN Err(st, ValueError(2))
    ELSE IF first_bad(SubSeq(args, 1, 2)) # 0
    THEN bad_number(st, args[first_bad(SubSeq(args, 1, 2))])
    ELSE Ok(st, Number(dyad_op(op, tonum(args[1]).n, tonum(args[2]).n)))

\* dyad!: two arguments, both numbers.
dyad(st, op, args) ==
    IF Len(args) # 2 THEN Err(st, ValueError(2))
    ELSE IF first_bad(args) # 0 THEN bad_number(st, args[first_bad(args)])
    ELSE Ok(st, Number(dyad_op(op, tonum(args[1]).n, tonum(args[2]).n)))

\* "not", a monad!
not_cmd(st, args) ==
    IF Len(args) # 1 THEN Err(st, ValueError(1))
    ELSE IF first_bad(args) # 0 THEN bad_number(st, args[1])
    ELSE Ok(st, frombool(tonum(args[1]).n = 0))

\* "or" | "and": the arguments in order, up to the first that decides.
RECURSIVE or_and(_, _, _, _)
or_and(st, op, args, i) ==
    IF i > Len(args) THEN Ok(st, Number(IF op = "or" THEN 0 ELSE 1))
    ELSE IF tonum(args[i]).res # "Ok" THEN bad_number(st, args[i])
    ELSE IF op = "or" /\ tonum(args[i]).n # 0 THEN Ok(st, Number(1))
    ELSE IF op = "and" /\ tonum(args[i]).n = 0 THEN Ok(st, Number(0))
    ELSE or_and(st, op, args, i + 1)

\* "eq"
eq_cmd(st, args) ==
    IF Len(args) # 2 THEN Err(st, ValueError(2))
    ELSE IF fmt_panics(args[1], st) \/ fmt_panics(args[2], st) THEN Panic(st)
    ELSE Ok(st, frombool(eq(args[1], args[2], st.heap)))

\* "len"
len_cmd(st, args) ==
    IF Len(args) # 1 THEN Err(st, ValueError(1))
    ELSE IF args[1].t = "List"
    THEN IF args[1].n \in st.borrowed THEN Panic(st)
         ELSE Ok(st, Number(Len(st.heap[args[1].n])))
    ELSE Ok(st, Number(Len(tostr(args[1], st.heap))))

\* "print" and its variants: every argument is displayed; the output is not kept.
print_cmd(st, args) ==
    IF \E i \in 1..Len(args) : fmt_panics(args[i], st) THEN Panic(st)
    ELSE Ok(st, Default)

RECURSIVE concat(_, _, _)
concat(args, i, hp) ==
    IF i > Len(args) THEN "" ELSE fmt_value(args[i], hp) \o concat(args, i + 1, hp)

\* "join"
join_cmd(st, args) ==
    IF \E i \in 1..Len(args) : fmt_panics(args[i], st) THEN Panic(st)
    ELSE Ok(st, StringVal(concat(args, 1, st.heap)))

\* "list"
list_cmd(st, args) == Ok(alloc(st, args), List(new_handle(st)))

\* index_cmd reading the index as an offset from the first element.
index_cmd_offset(st, args) ==
    IF Len(args) # 2 THEN Err(st, ValueError(2))
    ELSE LET l == tolist(args[1], st)
             i == tonum(args[2])
         IN IF l.res # "Ok" THEN fail(st, l)
            ELSE IF i.res # "Ok" THEN bad_number(st, args[2])
            ELSE IF i.n < 0 \/ i.n >= Len(st.heap[l.h])
            THEN Err(st, IndexError(i.n, Len(st.heap[l.h])))
            ELSE Ok(st, st.heap[l.h][i.n + 1])

\* "index"
index_cmd(st, args) ==
    IF Len(args) # 2 THEN Err(st, ValueError(2))
    ELSE LET l == tolist(args[1], st)
             i == toindex(args[2])
         IN IF l.res # "Ok" THEN fail(st, l)
            ELSE IF i.res # "Ok" THEN fail(st, i)
            ELSE IF i.n >= Len(st.heap[l.h])
            THEN Err(st, IndexError(i.n, Len(st.heap[l.h])))
            ELSE Ok(st, st.heap[l.h][i.n + 1])

\* "push"
push_cmd(st, args) ==
    IF Len(args) # 2 THEN Err(st, ValueError(2))
    ELSE LET l == tolist(args[1], st) IN
         IF l.res # "Ok" THEN fail(st, l)
         ELSE Ok([st EXCEPT !.heap[l.h] = Append(@, args[2])], Default)

\* "pop"
pop_cmd(st, args) ==
    IF Len(args) # 1 THEN Err(st, ValueError(1))
    ELSE LET l == tolist(args[1], st) IN
         IF l.res # "Ok" THEN fail(st, l)
         ELSE IF st.heap[l.h] = <<>> THEN Err(st, Simple("PopError"))
         ELSE Ok([st EXCEPT !.heap[l.h] = Front(@)], Last(st.heap[l.h]))

\* Vec::insert at a 0-based index
insert_at(items, index, v) ==
    SubSeq(items, 1, index) \o <<v>> \o SubSeq(items, index + 1, Len(items))

\* Vec::remove at a 0-based index
remove_at(items, index) ==
    SubSeq(items, 1, index) \o SubSeq(items, index + 2, Len(items))

\* "insert": the index is clamped to the length.
insert_cmd(st, args) ==
    IF Len(args) # 3 THEN Err(st, ValueError(3))
    ELSE LET l == tolist(args[1], st)
             i == toindex(args[2])
         IN IF l.res # "Ok" THEN fail(st, l)
            ELSE IF i.res # "Ok" THEN fail(st, i)
            ELSE Ok([st EXCEPT !.heap[l.h] =
                        insert_at(@, min(Len(@), i.n), args[3])], Default)

\* "remove": the index is clamped to the length, and Vec::remove panics at the length.
remove_cmd(st, args) ==
    IF Len(args) # 2 THEN Err(st, ValueError(2))
    ELSE LET l == tolist(args[1], st)
             i == toindex(args[2])
         IN IF l.res # "Ok" THEN fail(st, l)
            ELSE IF i.res # "Ok" THEN fail(st, i)
            ELSE LET len == Len(st.heap[l.h])
                     index == min(len, i.n)
                 IN IF index >= len THEN Panic(st)
                    ELSE Ok([st EXCEPT !.heap[l.h] = remove_at(@, index)],
                            st.heap[l.h][index + 1])

\* "replace"
replace_cmd(st, args) ==
    IF Len(args) # 3 THEN Err(st, ValueError(3))
    ELSE LET l == tolist(args[1], st)
             i == toindex(args[2])
         IN IF l.res # "Ok" THEN fail(st, l)
            ELSE IF i.res # "Ok" THEN fail(st, i)
            ELSE IF i.n >= Len(st.heap[l.h])
            THEN Err(st, IndexError(i.n, Len(st.heap[l.h])))
            ELSE Ok([st EXCEPT !.heap[l.h][i.n + 1] = args[3]], Default)

\* "_islist"
islist_cmd(st, args) ==
    IF Len(args) # 1 THEN Err(st, ValueError(1))
    ELSE Ok(st, frombool(args[1].t = "List"))

\* "_clone": a new backing sequence holding clones of the elements (handles stay handles).
clone_cmd(st, args) ==
    IF Len(args) # 1 THEN Err(st, ValueError(1))
    ELSE IF args[1].t = "List"
    THEN IF args[1].n \in st.borrowed THEN Panic(st)
         ELSE Ok(alloc(st, st.heap[args[1].n]), List(new_handle(st)))
    ELSE Ok(st, args[1])

\* set_cmd without scopes: the sigil is dropped and every name is a global.
set_cmd_global(st, args) ==
    IF Len(args) # 2 THEN Err(st, ValueError(2))
    ELSE LET l == tostr(args[1], st.heap)
             bare_name == IF starts_with(l, ".") THEN SubSeq(l, 2, Len(l)) ELSE l
         IN Ok([st EXCEPT !.globals = insert(@, bare_name, args[2])], Default)

\* set_cmd storing a copy of a list instead of its handle.
set_cmd_copy(st, args) ==
    IF Len(args) # 2 THEN Err(st, ValueError(2))
    ELSE LET l == tostr(args[1], st.heap)
             copied == args[2].t = "List"
             st1 == IF copied THEN alloc(st, st.heap[args[2].n]) ELSE st
             r == IF copied THEN List(new_handle(st)) ELSE args[2]
         IN IF starts_with(l, ".")
            THEN Ok([st1 EXCEPT !.locals = insert(@, l, r)], Default)
            ELSE Ok([st1 EXCEPT !.globals = insert(@, l, r)], Default)

\* "set": a name with the '.' sigil is written to locals, any other to globals.
set_cmd(st, args) ==
    IF Len(args) # 2 THEN Err(st, ValueError(2))
    ELSE IF fmt_panics(args[1], st) THEN Panic(st)
    ELSE LET l == tostr(args[1], st.heap) IN
         IF starts_with(l, ".")
         THEN Ok([st EXCEPT !.locals = insert(@, l, args[2])], Default)
         ELSE Ok([st EXCEPT !.globals = insert(@, l, args[2])], Default)

\* The scope map a name is looked up in.
scope(st, s) == IF starts_with(s, ".") THEN st.locals ELSE st.globals

\* "_get"
get_cmd(st, args) ==
    IF Len(args) # 1 THEN Err(st, ValueError(1))
    ELSE IF fmt_panics(args[1], st) THEN Panic(st)
    ELSE LET s == tostr(args[1], st.heap) IN
         IF s \in DOMAIN scope(st, s) THEN Ok(st, scope(st, s)[s])
         ELSE Err(st, NameError(s))

\* "_error"
error_cmd(st, args) ==
    IF Len(args) # 1 THEN Err(st, ValueError(1))
    ELSE IF fmt_panics(args[1], st) THEN Panic(st)
    ELSE Err(st, UserError(tostr(args[1], st.heap)))

\* "_return"
return_cmd(st, args) ==
    IF Len(args) = 0 THEN Err(st, Return(Default))
    ELSE IF Len(args) = 1 THEN Err(st, Return(args[1]))
    ELSE Err(st, ValueError(1))

(***************************************************************************)
(* run.rs: execute_command, and the builtins that call it                  *)
(***************************************************************************)
RECURSIVE bind(_, _, _, _)
bind(locals, fargs, args, i) ==
    IF i > Len(fargs) THEN locals
    ELSE bind(insert(locals, fargs[i], args[i]), fargs, args, i + 1)

\* The function-table half of execute_command: the fresh locals of a call.
invoke(st, name, args) ==
    IF name \notin DOMAIN st.functions THEN Err(st, Simple("NotDefined"))
    ELSE LET func == st.functions[name]
             locals == insert(EmptyMap, ".args", List(new_handle(st)))
         IN IF ~func.variadic /\ Len(func.arguments) # Len(args)
            THEN Err(st, ValueError(Len(func.arguments)))
            ELSE Invoke(alloc(st, args), func,
                        IF func.variadic THEN locals
                        ELSE bind(locals, func.arguments, args, 1))

\* The names the builtin table answers to (the commands kept out of this model
\* are the f64 functions, substr, _chr, _ord, input, _globals, _locals, _time
\* and the random numbers).
Dyads == {"sub", "lt", "gt", "lte", "gte"}

Prints == {"print", "_printraw", "_printerr", "_printerrraw"}

FunctionEnds == {"end _cmd", "end define"}

RECURSIVE execute_command(_, _, _)
RECURSIVE builtins(_, _, _)

\* "call": the function table key of a `define` block is "call " + its name.
call_cmd(st, args) ==
    IF Len(args) = 0 THEN Err(st, ValueError(1))
    ELSE IF fmt_panics(args[1], st) THEN Panic(st)
    ELSE execute_command(st, "call " \o tostr(args[1], st.heap), Tail(args))

\* "_apply": the argument list stays mutably borrowed while the command runs.
apply_cmd(st, args) ==
    IF Len(args) # 2 THEN Err(st, ValueError(2))
    ELSE IF fmt_panics(args[1], st) THEN Panic(st)
    ELSE LET a == tolist(args[2], st) IN
         IF a.res # "Ok" THEN fail(st, a)
         ELSE CHOOSE o \in {IF r.res = "Invoke" THEN r
                            ELSE [r EXCEPT !.st.borrowed = st.borrowed] :
                            r \in {execute_command(
                                       [st EXCEPT !.borrowed = @ \cup {a.h}],
                                       tostr(args[1], st.heap), st.heap[a.h])}} : TRUE

\* The commands that carry a Lineptr: it is taken off the arguments first.
block_commands(st, name, args, lineptr) ==
    IF name \in FunctionEnds THEN end_function(st, args)
    ELSE IF name = "end while" THEN end_while(st, args, lineptr)
    ELSE IF name = "end if" THEN end_if(st, args)
    ELSE IF name \in {"if", "while"} THEN if_while(st, args, lineptr)
    ELSE IF name = "_cmd" THEN cmd_header(st, args, lineptr)
    ELSE IF name = "define" THEN define_header(st, args, lineptr)
    ELSE execute_command(st, name, args)

normal_commands(st, name, args) ==
    IF name \in {"add", "mul"} THEN add_mul(st, name, args)
    ELSE IF name \in Dyads THEN dyad(st, name, args)
    ELSE IF name = "not" THEN not_cmd(st, args)
    ELSE IF name \in {"or", "and"} THEN or_and(st, name, args, 1)
    ELSE IF name = "eq" THEN eq_cmd(st, args)
    ELSE IF name = "len" THEN len_cmd(st, args)
    ELSE IF name \in Prints THEN print_cmd(st, args)
    ELSE IF name = "join" THEN join_cmd(st, args)
    ELSE IF name = "list" THEN list_cmd(st, args)
    ELSE IF name = "index" THEN index_cmd(st, args)
    ELSE IF name = "push" THEN push_cmd(st, args)
    ELSE IF name = "pop" THEN pop_cmd(st, args)
    ELSE IF name = "insert" THEN insert_cmd(st, args)
    ELSE IF name = "remove" THEN remove_cmd(st, args)
    ELSE IF name = "replace" THEN replace_cmd(st, args)
    ELSE IF name = "_islist" THEN islist_cmd(st, args)
    ELSE IF name = "_clone" THEN clone_cmd(st, args)
    ELSE IF name = "set" THEN set_cmd(st, args)
    ELSE IF name = "_get" THEN get_cmd(st, args)
    ELSE IF name = "_error" THEN error_cmd(st, args)
    ELSE IF name = "call" THEN call_cmd(st, args)
    ELSE IF name = "_apply" THEN apply_cmd(st, args)
    ELSE IF name = "_return" THEN return_cmd(st, args)
    ELSE IF name \in {"end", "while", "if", "define", "_cmd"}
    THEN Err(st, Simple("MustBeTopLevel"))
    ELSE Err(st, Simple("IsNotBuiltIn"))

\* builtins leaving the line pointer among the arguments of the `end` of a
\* function.
builtins_end_unstripped(st, name, args) ==
    IF args # <<>> /\ Last(args).t = "Lineptr"
    THEN block_commands(st, name, IF name \in FunctionEnds THEN args ELSE Front(args),
                        Last(args).n)
    ELSE normal_commands(st, name, args)

builtins(st, name, args) ==
    IF args # <<>> /\ Last(args).t = "Lineptr"
    THEN block_commands(st, name, Front(args), Last(args).n)
    ELSE normal_commands(st, name, args)

\* The result of builtins is worked out once (b ranges over that one value).
execute_command(st, name, args) ==
    CHOOSE o \in {IF b.res = "Err" /\ b.kind.k = "IsNotBuiltIn"
                  THEN invoke(st, name, args)
                  ELSE b : b \in {builtins(st, name, args)}} : TRUE

(***************************************************************************)
(* Bounds                                                                  *)
(***************************************************************************)
\* The longest generated block body, in lines.
MaxBody == 3

\* The largest initial value of the loop counter n.
MaxCount == 2

\* The most call frames alive at once (the host stack), the top level included.
MaxDepth == 6

\* The most backing sequences allocated in one run.
MaxHeap == 8

\* The longest list built for the index commands.
MaxItems == 3

\* The most arguments written after a command name in the arity programs.
MaxArgs == 4

\* The most characters between the quotes of a generated literal.
MaxQuote == 3

\* The most lines of a generated text with malformed lines.
MaxText == 3

\* A run is followed while its numbers stay at or above -MaxBelow (a loop that
\* counts down past zero never ends).
MaxBelow == 3

(***************************************************************************)
(* run.rs: the state of a run                                              *)
(*                                                                         *)
(* frames is the host call stack: frames[1] is the State of execute, every *)
(* later one the State execute_command builds for a call.  A frame's stack *)
(* holds the commands of its current line whose arguments are still being  *)
(* evaluated, innermost last.  saved is the caller's locals and lineno at  *)
(* the time of the call (a history field: no operation reads it).          *)
(***************************************************************************)
Frame(locals, lineno, borrowed, saved) ==
    [locals |-> locals, lineno |-> lineno, stack |-> <<>>,
     borrowed |-> borrowed, saved |-> saved]

NoSaved == [locals |-> EmptyMap, lineno |-> 0]

Pending(name, args) == [name |-> name, args |-> args, vals |-> <<>>]

Depth == Len(frames)

Top == frames[Depth]

Running == phase = "run"

\* The State handed to a command run by the top frame.
state_of(f, overflow_checks) ==
    [globals |-> globals, locals |-> f.locals, functions |-> functions,
     lineno |-> f.lineno, heap |-> heap, borrowed |-> f.borrowed,
     overflow_checks |-> overflow_checks]

\* A command of the top frame has its value: it becomes an argument of the
\* command around it, or the line is done and the driving loop adds one to lineno.
deliver(fr, v) ==
    LET d == Len(fr)
        rest == Front(fr[d].stack)
    IN IF rest = <<>>
       THEN [fr EXCEPT ![d].stack = <<>>, ![d].lineno = @ + 1]
       ELSE [fr EXCEPT ![d].stack =
                Append(Front(rest), [Last(rest) EXCEPT !.vals = Append(@, v)])]

\* contexts with the innermost call first.
contexts_innermost_first(fr) ==
    [i \in 1..(Len(fr) - 1) |->
        [line |-> fr[Len(fr) - i].lineno, function |-> Last(fr[Len(fr) - i].stack).name]]

\* RunError { line, function, inner } around every call still on the stack.
contexts(fr) ==
    [i \in 1..(Len(fr) - 1) |->
        [line |-> fr[i].lineno, function |-> Last(fr[i].stack).name]]

\* raise with one program counter for caller and callee: the caller goes on
\* from the line the callee stopped at.
raise_shared_lineno(fr, line, function, kind) ==
    IF kind.k = "Return" /\ Len(fr) > 1
    THEN /\ frames' = deliver([Front(fr) EXCEPT ![Len(fr) - 1].lineno = fr[Len(fr)].lineno],
                              kind.v)
         /\ UNCHANGED <<phase, error>>
    ELSE /\ frames' = fr
         /\ phase' = "error"
         /\ error' = [trace |-> Append(contexts(fr), [line |-> line, function |-> function]),
                      kind |-> kind]

\* raise without the interception at the call boundary: a Return is an error
\* like any other.
raise_no_intercept(fr, line, function, kind) ==
    /\ frames' = fr
    /\ phase' = "error"
    /\ error' = [trace |-> Append(contexts(fr), [line |-> line, function |-> function]),
                 kind |-> kind]

\* An error leaves evaluate in the top frame of fr.  Inside a call a Return
\* ends the frame and is the call's value; anything else is wrapped by every
\* frame on its way out of execute.
raise(fr, line, function, kind) ==
    IF kind.k = "Return" /\ Len(fr) > 1
    THEN /\ frames' = deliver(Front(fr), kind.v)
         /\ UNCHANGED <<phase, error>>
    ELSE /\ frames' = fr
         /\ phase' = "error"
         /\ error' = [trace |-> Append(contexts(fr), [line |-> line, function |-> function]),
                      kind |-> kind]

(***************************************************************************)
(* Actions                                                                 *)
(***************************************************************************)
\* The exit status of main: `expect` panics on a parse error and a panic in
\* the run unwinds out of main (status 101); the closure given to
\* unwrap_or_else prints the run-time error, and main then returns as it does
\* after a run without error (status 0).
exit_status ==
    CASE phase \in {"parse_error", "panic"} -> 101
      [] phase \in {"done", "error"} -> 0

\* What main writes to stderr on its own: the Display of the run-time error.
eprintln == IF phase = "error" THEN <<error>> ELSE <<>>

\* main: parse::parse(&code).expect(..), then run::execute(&parsed).
Parse ==
    /\ phase = "parse"
    /\ LET r == parse(code) IN
       IF r.ok
       THEN /\ phase' = "run"
            /\ lines' = r.commands
            /\ frames' = <<Frame(EmptyMap, 0, {}, NoSaved)>>
            /\ error' = error
       ELSE /\ phase' = "parse_error"
            /\ error' = [trace |-> <<>>, kind |-> Kind(r.err, r.line, 0, "", Default)]
            /\ UNCHANGED <<lines, frames>>
    /\ UNCHANGED <<code, globals, functions, heap>>

\* The head of the driving loops: execute_with_state stops past the last
\* line, the loop of a call indexes lines without a check.
FetchLine ==
    /\ Running
    /\ Top.stack = <<>>
    /\ IF Top.lineno >= Len(lines)
       THEN /\ phase' = (IF Depth = 1 THEN "done" ELSE "panic")
            /\ frames' = frames
       ELSE /\ phase' = phase
            /\ LET cmd == lines[Top.lineno + 1] IN
               IF cmd = NoLine
               THEN frames' = [frames EXCEPT ![Depth].lineno = @ + 1]
               ELSE frames' = [frames EXCEPT ![Depth].stack = <<Pending(cmd.s, cmd.args)>>]
    /\ UNCHANGED <<code, lines, globals, functions, heap, error>>

\* EvalArg taking the arguments from the right.
EvalArg_from_right ==
    /\ Running
    /\ Top.stack # <<>>
    /\ Len(Last(Top.stack).vals) < Len(Last(Top.stack).args)
    /\ LET p == Last(Top.stack)
           x == p.args[Len(p.args) - Len(p.vals)]
           value(v) == [frames EXCEPT ![Depth].stack[Len(Top.stack)].vals = <<v>> \o @]
       IN IF x.e = "Command"
          THEN /\ frames' = [frames EXCEPT ![Depth].stack = Append(@, Pending(x.s, x.args))]
               /\ UNCHANGED <<phase, error>>
          ELSE IF x.e = "Variable"
          THEN LET map == IF starts_with(x.s, ".") THEN Top.locals ELSE globals IN
               IF x.s \in DOMAIN map
               THEN /\ frames' = value(map[x.s])
                    /\ UNCHANGED <<phase, error>>
               ELSE raise(frames, Top.lineno, "[]", NameError(x.s))
          ELSE /\ frames' = value(IF x.e = "Literal" THEN StringVal(x.s)
                                  ELSE IF x.e = "Number" THEN Number(x.n)
                                  ELSE Lineptr(x.n))
               /\ UNCHANGED <<phase, error>>
    /\ UNCHANGED <<code, lines, globals, functions, heap>>

\* evaluate on the next argument of the innermost pending command.
EvalArg ==
    /\ Running
    /\ Top.stack # <<>>
    /\ Len(Last(Top.stack).vals) < Len(Last(Top.stack).args)
    /\ LET p == Last(Top.stack)
           x == p.args[Len(p.vals) + 1]
           value(v) == [frames EXCEPT ![Depth].stack[Len(Top.stack)].vals = Append(@, v)]
       IN IF x.e = "Command"
          THEN /\ frames' = [frames EXCEPT ![Depth].stack = Append(@, Pending(x.s, x.args))]
               /\ UNCHANGED <<phase, error>>
          ELSE IF x.e = "Variable"
          THEN LET map == IF starts_with(x.s, ".") THEN Top.locals ELSE globals IN
               IF x.s \in DOMAIN map
               THEN /\ frames' = value(map[x.s])
                    /\ UNCHANGED <<phase, error>>
               ELSE raise(frames, Top.lineno, "[]", NameError(x.s))
          ELSE /\ frames' = value(IF x.e = "Literal" THEN StringVal(x.s)
                                  ELSE IF x.e = "Number" THEN Number(x.n)
                                  ELSE Lineptr(x.n))
               /\ UNCHANGED <<phase, error>>
    /\ UNCHANGED <<code, lines, globals, functions, heap>>

\* evaluate on a command whose arguments all have their values: execute_command,
\* and what the caller's loop makes of the result.
Execute ==
    /\ Running
    /\ Top.stack # <<>>
    /\ Len(Last(Top.stack).vals) = Len(Last(Top.stack).args)
    /\ \E overflow_checks \in BOOLEAN, p \in {Last(Top.stack)} :
       \E o \in {execute_command(state_of(Top, overflow_checks), p.name, p.vals)} :
       \E fr \in {[frames EXCEPT ![Depth].locals = o.st.locals,
                                 ![Depth].lineno = o.st.lineno]} :
           /\ Len(o.st.heap) <= MaxHeap
           /\ (o.res = "Ok" /\ o.v.t = "Number") => o.v.n >= -MaxBelow
           /\ globals' = o.st.globals
           /\ functions' = o.st.functions
           /\ heap' = o.st.heap
           /\ IF o.res = "Ok"
              THEN /\ frames' = deliver(fr, o.v)
                   /\ UNCHANGED <<phase, error>>
              ELSE IF o.res = "Invoke"
              THEN /\ Depth < MaxDepth
                   /\ frames' = Append(fr, Frame(o.locals, o.func.lineno, o.st.borrowed,
                                           [locals |-> fr[Depth].locals,
                                            lineno |-> fr[Depth].lineno]))
                   /\ UNCHANGED <<phase, error>>
              ELSE IF o.res = "Panic"
              THEN /\ frames' = fr
                   /\ phase' = "panic"
                   /\ error' = error
              ELSE raise(fr, o.st.lineno, p.name, o.kind)
    /\ UNCHANGED <<code, lines>>

(***************************************************************************)
(* The programs run                                                        *)
(***************************************************************************)
\* Block bodies: every sequence of at most MaxBody of these lines, run after
\* a line that sets the counter n.
BodyLines == {"", "if [n]", "while [n]", "set n (sub [n] 1)", "end"}

Bodies == UNION {[1..len -> BodyLines] : len \in 0..MaxBody}

ControlPrograms ==
    {<<"set n " \o fmt_f64(k)>> \o body : k \in 0..MaxCount, body \in Bodies}

\* Blocks that open on the first line of the program.
FirstLinePrograms ==
    {<<opener \o " " \o fmt_f64(k), "set x 1", "end", "set y 1">> :
        opener \in {"if", "while"}, k \in 0..1}
    \cup {<<"while 1", "end">>}

\* A function of two parameters x y, called with nargs arguments.
AddProgram(header, nargs) ==
    <<header \o " f x y",
      "end (add [x] [y])",
      "set r (f" \o SubSeq(" 3 4 5", 1, 2 * nargs) \o ")">>

AddPrograms == {AddProgram(header, nargs) : header \in {"_cmd", "_func"}, nargs \in 1..3}

\* A function that calls itself k times more, then unwinds.
RecProgram(k) ==
    <<"set n " \o fmt_f64(k),
      "define f",
      "set .d [n]",
      "if [n]",
      "set n (sub [n] 1)",
      "set .r (call f)",
      "end",
      "end [.d]",
      "set .t 1",
      "set r (call f 1 2 3)">>

RecPrograms == {RecProgram(k) : k \in 0..MaxCount}

\* Local and global writes inside calls, two frames deep.
ScopeProgram ==
    <<"set x 1",
      "set .x 9",
      "define g",
      "set .x 3",
      "set z 4",
      "end",
      "define f",
      "set .x 2",
      "set y 3",
      "call g",
      "end [.x]",
      "set r (call f)",
      "set t [.x]">>

\* Returns raised by _return, nested in an argument, through _apply, and by `end`.
ReturnProgram ==
    <<"define g",
      "join a (_return 5)",
      "set bad 1",
      "end",
      "define h",
      "_apply _return (list 6)",
      "set bad 1",
      "end",
      "define f",
      "set a (call g)",
      "set b (_apply \"call h\" (list))",
      "end (join [a] [b])",
      "set c (call f)",
      "_return 8",
      "set bad 1">>

\* One list reached through two globals, a list element and a call argument.
ListLines ==
    {"push [m] 3", "pop [l]", "insert [m] 1 0", "remove [l] 1", "replace [m] 2 7",
     "call f [l]", "push (index [o] 1) 4"}

ListProgram(a, b) ==
    <<"set l (list 1 2)",
      "set m [l]",
      "set o (list [l])",
      "define f",
      "push (index [.args] 1) 9",
      "end",
      a,
      b>>

ListPrograms == {ListProgram(a, b) : a \in ListLines, b \in ListLines}


\* A list l holding the list i, its _clone m, then one mutation.
CloneOuter == {"push [m] 3", "push [l] 3", "replace [m] 2 7", "pop [l]"}

CloneInner == {"push (index [m] 1) 2", "push (index [l] 1) 2", "push [i] 2"}

CloneProgram(mutation) ==
    <<"set i (list 1)",
      "set l (list [i] 5)",
      "set m (_clone [l])",
      mutation>>

ClonePrograms == {CloneProgram(mutation) : mutation \in CloneOuter \cup CloneInner}


\* `eq` on every pair of these operands.
EqOperands ==
    {"1", "2", "01", "x", "\"1\"", "\"(1)\"", "(list)", "(list 1)", "(list 1 2)",
     "(list (list 1))", "(list (list 1 2))"}

EqProgram(a, b) == <<"set r (eq " \o a \o " " \o b \o ")">>

EqPrograms == {EqProgram(a, b) : a \in EqOperands, b \in EqOperands}


\* `index` at every position of a list of n items 11, 12, ..: 0, 1..n, and past the end.
RECURSIVE Items(_)
Items(n) == IF n = 0 THEN "" ELSE Items(n - 1) \o " " \o fmt_f64(10 + n)

IndexProgram(n, i) == <<"set l (list" \o Items(n) \o ")", "set r (index [l] " \o fmt_f64(i) \o ")">>

IndexPrograms == {IndexProgram(n, i) : n \in 0..MaxItems, i \in 0..(MaxItems + 2)}


\* The commands whose arguments the fixed! macro counts (monad! and dyad!
\* included), each called with 0..MaxArgs arguments 1.
Fixed ==
    {"sub", "lt", "gt", "lte", "gte", "not", "eq", "len", "index", "push", "pop",
     "insert", "remove", "replace", "_islist", "_clone", "set", "_get", "_error", "_apply"}

RECURSIVE Ones(_)
Ones(n) == IF n = 0 THEN "" ELSE " 1" \o Ones(n - 1)

\* The block commands, opener and `end`, with 0..MaxArgs arguments written.
ArityPrograms ==
    {<<name \o Ones(n)>> : name \in Fixed, n \in 0..MaxArgs}
    \cup {<<opener \o Ones(n), "end">> : opener \in {"if", "while", "define"}, n \in 0..MaxArgs}
    \cup {<<"if 1", "end" \o Ones(n)>> : n \in 0..MaxArgs}
    \cup {<<"set n 1", "while [n]", "set n 0", "end" \o Ones(n)>> : n \in 0..MaxArgs}
    \cup {<<"set r (sub 5 3)">>}


\* A second header for a name already defined, at top level and inside a call.
RedefinePrograms ==
    {<<"define f", "end 1", "define g", "end 2", "define f", "end 3", "set r (call f)">>,
     <<"define f", "end 1", "define h", "define f", "end 2", "end", "call h">>,
     <<"define f", "end 1", "define g", "end 2", "set r (call f)", "set s (call g)">>}


\* `set x "..."` for every text of at most MaxQuote of these characters
\* between the quotes.
QuoteChars == {"a", "\\", "\"", " "}

RECURSIVE Flat(_)
Flat(chars) == IF chars = <<>> THEN "" ELSE chars[1] \o Flat(Tail(chars))

QuoteProgram(chars) == <<"set x \"" \o Flat(chars) \o "\"">>

QuotePrograms == {QuoteProgram(chars) : chars \in UNION {[1..n -> QuoteChars] : n \in 0..MaxQuote}}


\* Every text of at most MaxText of these lines, three of them malformed.
TextLines == {"", "if 1", "end", "set x (add 1 2)", " set x \"a", "add (1", "(a) 1"}

TextPrograms == UNION {[1..len -> TextLines] : len \in 0..MaxText}


\* Headers and calls: a call before the header, a header in a block that is
\* skipped, a body with lines that write, a header inside a body, and the two
\* spellings of a function header in a text that parses.
HeaderPrograms ==
    {<<"call f", "define f", "end 1">>,
     <<"if 0", "define f", "end 1", "end", "set r (call f)">>,
     <<"define f", "set x 1", "end 2", "set y 1", "set r (call f)">>,
     <<"define h", "set a 1", "define f", "set b 1", "end 2", "set c 1", "end 3",
       "set r (call h)", "set s (call f)">>,
     <<"_func g x", "set x 1", "end", "set y 1">>,
     <<"if 1", "_cmd g x", "end", "set y 1">>}


\* `list` given n arguments, each pushing its position onto l, but for the
\* k-th, which reads an unbound name (k = 0: none does).
RECURSIVE Pushes(_, _)
Pushes(n, k) ==
    IF n = 0 THEN ""
    ELSE Pushes(n - 1, k)
         \o (IF n = k THEN " [nope]" ELSE " (push [l] " \o fmt_f64(n) \o ")")

ArgProgram(n, k) == <<"set l (list)", "set r (list" \o Pushes(n, k) \o ")">>

\* Arguments nested in arguments; an argument that defines a function and one
\* that writes a global, before an argument whose command fails.
NestedPrograms ==
    {<<"set l (list)",
       "set r (list (list (push [l] 1) (push [l] 2)) (list (push [l] 3)))">>,
     <<"set l (list)",
       "define h", "define f", "end", "end",
       "set r (list (call h) (set a 5) (push [l] 1) (sub x 1) (push [l] 2) (set b 6))">>}

ArgPrograms == {ArgProgram(n, k) : n \in 1..MaxItems, k \in 0..MaxItems} \cup NestedPrograms


\* An error two calls deep: g fails at the command or variable `failing`,
\* f reaches g by `call` or `_apply`, and the top level calls f in an argument.
TraceProgram(failing, calling) ==
    <<"define g",
      "set x (join a " \o failing \o ")",
      "end",
      "define f",
      "set y 1",
      calling,
      "end",
      "",
      "set r (join a (call f))",
      "set z 1">>

TracePrograms ==
    {TraceProgram(failing, calling) :
        failing \in {"(sub a 1)", "[nope]", "(_error boom)"},
        calling \in {"call g", "_apply \"call g\" (list)"}}


\* `remove` at every position from 1 of a list of n items 11, 12, ..: inside
\* the list, one past its end and further.
RemovePrograms ==
    {<<"set l (list" \o Items(n) \o ")", "set r (remove [l] " \o fmt_f64(i) \o ")">> :
        n \in 0..MaxItems, i \in 1..(MaxItems + 2)}


\* The block bodies as the body of a function f that is called once, then
\* once more from a loop at top level.
FramePrograms ==
    {<<"set n " \o fmt_f64(k), "define f">> \o body \o <<"end", "call f", "set n 1", "call f">> :
        k \in 0..MaxCount, body \in Bodies}


\* `_apply` with an argument list that the applied command reaches again: as
\* an element of itself, or through the global a, written or read by a user
\* function; and with an argument list nothing else names.
AliasedApplyPrograms ==
    {<<"set a (list)", "push [a] [a]", "push [a] 5", "_apply push [a]">>,
     <<"set a (list 1)", "define f", "push [a] 2", "end", "_apply \"call f\" [a]">>,
     <<"set a (list 1)", "define f", "set r (len [a])", "end", "_apply \"call f\" [a]">>}

ApplyPrograms ==
    AliasedApplyPrograms
    \cup {<<"set a (list 1)", "_apply push (list [a] 2)", "set r (_apply len (list [a]))">>}

Programs ==
    ControlPrograms \cup FirstLinePrograms \cup AddPrograms \cup RecPrograms
    \cup {ScopeProgram, ReturnProgram} \cup ListPrograms
    \cup ClonePrograms
    \cup EqPrograms
    \cup IndexPrograms
    \cup ArityPrograms
    \cup RedefinePrograms
    \cup QuotePrograms
    \cup TextPrograms
    \cup HeaderPrograms
    \cup ArgPrograms
    \cup TracePrograms
    \cup RemovePrograms
    \cup FramePrograms
    \cup ApplyPrograms

(***************************************************************************)
(* Specification                                                           *)
(***************************************************************************)
Init ==
    /\ code \in Programs
    /\ phase = "parse"
    /\ lines = <<>>
    /\ globals = EmptyMap
    /\ functions = EmptyMap
    /\ heap = <<>>
    /\ frames = <<>>
    /\ error = NoError

\* A step of the run that main starts once the text is parsed.
Run == FetchLine \/ EvalArg \/ Execute

Next == Parse \/ Run

Spec == Init /\ [][Next]_vars

\* The interpreter is one thread that never waits: once the run has started,
\* a step that can be taken is taken.
FairSpec == Spec /\ WF_vars(Run)

(***************************************************************************)
(* The resolver on its own: every text of at most MaxLines of these lines  *)
(***************************************************************************)
\* The longest text given to the resolver, in lines.
MaxLines == 4

ResolverLines ==
    {"", "# c", "if 1", "while [n]", "define f", "_func f x", "_cmd f x", "end", "end 1"}

ResolverTexts == UNION {[1..len -> ResolverLines] : len \in 0..MaxLines}

ParseInit ==
    /\ code \in ResolverTexts
    /\ phase = "parse"
    /\ lines = <<>>
    /\ globals = EmptyMap
    /\ functions = EmptyMap
    /\ heap = <<>>
    /\ frames = <<>>
    /\ error = NoError

ParseSpec == ParseInit /\ [][Parse]_vars


(***************************************************************************)
(* Block resolution                                                        *)
(***************************************************************************)
LineNos == 0..(Len(lines) - 1)

Line(i) == lines[i + 1]

IsBlank(text) == trim(text) = "" \/ starts_with(trim(text), "#")

\* The places of a command's Lineptr arguments.
Lineptrs(cmd) == {k \in 1..Len(cmd.args) : cmd.args[k].e = "Lineptr"}

RECURSIVE CarriesLineptr(_)
CarriesLineptr(x) ==
    \/ x.e = "Lineptr"
    \/ \E k \in 1..Len(x.args) : CarriesLineptr(x.args[k])

\* Exactly one Lineptr, and it is the last argument.
OnePointer(cmd) ==
    /\ Lineptrs(cmd) = {Len(cmd.args)}
    /\ \A k \in 1..(Len(cmd.args) - 1) : ~CarriesLineptr(cmd.args[k])

Target(i) == Last(Line(i).args).n

IsOpenerLine(i) == Line(i).s \in Openers

IsEndLine(i) ==
    /\ Line(i).e = "Command"
    /\ Len(Line(i).s) >= 3
    /\ SubSeq(Line(i).s, 1, 3) = "end"
    /\ (Len(Line(i).s) = 3 \/ CharAt(Line(i).s, 4) = " ")

Delta(text) ==
    IF IsBlank(text) THEN 0
    ELSE LET name == parse_command(trim(text), TRUE).cmd.s IN
         IF name \in Openers THEN 1 ELSE IF name = "end" THEN 0 - 1 ELSE 0

RECURSIVE OpenAfter(_, _)
OpenAfter(text, k) == IF k = 0 THEN 0 ELSE OpenAfter(text, k - 1) + Delta(text[k])

\* Some `end` comes when no block is open.
ExtraEnd(text) == \E k \in 1..Len(text) : OpenAfter(text, k) < 0

Balanced(text) == ~ExtraEnd(text) /\ OpenAfter(text, Len(text)) = 0

Ready(name, nargs) ==
    /\ Running
    /\ Len(Top.stack) = 1
    /\ Top.stack[1].name = name
    /\ Len(Top.stack[1].args) = nargs
    /\ Len(Top.stack[1].vals) = nargs

Cond == tonum(Top.stack[1].vals[1])

\* Openers minus ends among the lines from..to.
Nesting(from, to) ==
    Cardinality({k \in from..to : IsOpenerLine(k)})
    - Cardinality({k \in from..to : IsEndLine(k)})

\* The `end` that closes the block opened on line i, and the opener of the
\* block closed on line j, found by counting.
MatchingEnd(i) ==
    CHOOSE j \in LineNos :
        /\ j > i
        /\ Nesting(i, j) = 0
        /\ \A k \in i..(j - 1) : Nesting(i, k) > 0

MatchingOpener(j) == CHOOSE i \in LineNos : IsOpenerLine(i) /\ i < j /\ MatchingEnd(i) = j

\* The step ends the line: the same frame goes on, and reads line n next.
ContinuesAt(n) ==
    /\ phase' = "run"
    /\ Len(frames') = Depth
    /\ frames'[Depth].stack = <<>>
    /\ frames'[Depth].lineno = n

C1_IfStep ==
    /\ (Ready("if", 2) /\ Cond.res = "Ok") =>
          IF Cond.n = 0 THEN ContinuesAt(MatchingEnd(Top.lineno) + 1)
          ELSE ContinuesAt(Top.lineno + 1)
    /\ Ready("end if", 1) => ContinuesAt(Top.lineno + 1)

\* C1: an `if` whose condition is zero continues with the line after its `end`,
\* so no line of the body is read on that pass; with a non-zero condition it
\* continues with the first line of the body, and the `end` of an `if`
\* continues with the line after it: it never goes back.
C1_If == [][C1_IfStep]_vars

\* `if 0` on the first line has skipped its body and the run has ended.
C1_Witness ==
    /\ phase = "done"
    /\ code = <<"if 0", "set x 1", "end", "set y 1">>
    /\ DOMAIN globals = {"y"}

C2_WhileStep ==
    /\ (Ready("while", 2) /\ Cond.res = "Ok") =>
          IF Cond.n = 0 THEN ContinuesAt(MatchingEnd(Top.lineno) + 1)
          ELSE ContinuesAt(Top.lineno + 1)
    /\ Ready("end while", 1) => ContinuesAt(MatchingOpener(Top.lineno))

\* C2: a `while` whose condition is zero continues with the line after its `end`
\* (at once when it is zero the first time); after a pass through the body the
\* `end` continues with the `while` line itself, which is evaluated again.
C2_While == [][C2_WhileStep]_vars

(***************************************************************************)
(* Functions                                                               *)
(***************************************************************************)
Ended == phase \notin {"parse", "run"}

\* C5: a function declared with the parameters x y and the result add [x] [y],
\* called with 3 4, returns 7.
C5_AddReturns7 ==
    (Ended /\ code \in {AddProgram(header, 2) : header \in {"_cmd", "_func"}})
        => (phase = "done" /\ "r" \in DOMAIN globals /\ globals["r"] = Number(7))

\* C6: a function declared with two parameters and called with one or three
\* arguments fails with the arity error naming 2.
C6_ArityError ==
    (Ended /\ code \in {AddProgram(header, nargs) :
                            header \in {"_cmd", "_func"}, nargs \in {1, 3}})
        => (phase = "error" /\ error.kind = ValueError(2))

\* The frames under the top frame.
Callers == 1..(Depth - 1)

C7_Saved ==
    \A k \in 2..Depth :
        /\ frames[k].saved.locals = frames[k - 1].locals
        /\ frames[k].saved.lineno = frames[k - 1].lineno

C7_Step ==
    /\ frames # <<>> => Len(frames') \in {Depth - 1, Depth, Depth + 1}
    /\ Len(frames') >= Depth => \A i \in Callers : frames'[i] = frames[i]
    /\ (Depth >= 2 /\ Len(frames') = Depth - 1) =>
          /\ \A i \in 1..(Depth - 2) : frames'[i] = frames[i]
          /\ frames'[Depth - 1].locals = Top.saved.locals
          /\ frames'[Depth - 1].lineno =
                Top.saved.lineno + (IF Len(frames[Depth - 1].stack) = 1 THEN 1 ELSE 0)

C7_Unwinds ==
    \A k \in 0..MaxCount :
        (Running /\ code = RecProgram(k)) ~>
            (phase = "done" /\ Depth = 1
             /\ "r" \in DOMAIN globals /\ globals["r"] = Number(k)
             /\ DOMAIN frames[1].locals = {".t"})

\* C7: call frames are a stack.  A step changes the depth by at most one and,
\* unless it is a return, leaves every frame under the top one as it is; while
\* a call runs, and when it returns, its caller's locals and lineno are the ones
\* saved when the call was made (the caller's loop then moves on by one line if
\* the call was the whole line); a function that calls itself k times more
\* returns through every frame, each with its own locals, and the run ends.
C7_Frames == [][C7_Step]_vars /\ []C7_Saved /\ C7_Unwinds

\* A recursive call has returned into its caller, itself a call of the function.
C7_Witness ==
    /\ code \in RecPrograms
    /\ Running
    /\ Depth = 2
    /\ ".r" \in DOMAIN Top.locals

\* The name a `set` is about to write, when the top frame is at a `set`.
SetName == tostr(Last(Top.stack).vals[1], heap)

SetReady ==
    /\ Running
    /\ Top.stack # <<>>
    /\ Last(Top.stack).name = "set"
    /\ Len(Last(Top.stack).args) = 2
    /\ Len(Last(Top.stack).vals) = 2

C8_Step ==
    /\ (SetReady /\ starts_with(SetName, ".")) =>
          /\ globals' = globals
          /\ Len(frames') = Depth
          /\ \A i \in Callers : frames'[i] = frames[i]
          /\ frames'[Depth].locals = insert(Top.locals, SetName, Last(Top.stack).vals[2])
    /\ (SetReady /\ ~starts_with(SetName, ".")) =>
          /\ globals' = insert(globals, SetName, Last(Top.stack).vals[2])
          /\ \A i \in 1..Depth : frames'[i].locals = frames[i].locals
    /\ \A name \in DOMAIN globals : name \in DOMAIN globals'
    /\ (Depth >= 2 /\ Len(frames') = Depth - 1) =>
          /\ globals' = globals
          /\ frames'[Depth - 1].locals = frames[Depth - 1].locals

C8_ScopeEnd ==
    (phase = "done" /\ code = ScopeProgram) =>
        /\ globals = [x |-> Number(1), y |-> Number(3), z |-> Number(4),
                      r |-> Number(2), t |-> Number(9)]
        /\ frames[1].locals = insert(EmptyMap, ".x", Number(9))

\* C8: a `set` of a name with the sigil changes the locals of the running frame
\* and nothing else: not the globals, not the locals of any caller; a return
\* leaves the caller's locals and the globals as they are, so the callee's
\* locals are gone; a `set` of any other name writes the global of that name at
\* any depth and no local map, and no step removes a global: the scope program
\* ends with every global written inside its calls readable at top level.
C8_Scopes == [][C8_Step]_vars /\ []C8_ScopeEnd

\* Both calls of the scope program have returned and the run has ended.
C8_Witness ==
    /\ phase = "done"
    /\ code = ScopeProgram
    /\ globals["y"] = Number(3)
    /\ globals["z"] = Number(4)
    /\ globals["x"] = Number(1)

\* The command the top frame is about to run raises a Return.
Returning ==
    /\ Running
    /\ Top.stack # <<>>
    /\ Len(Last(Top.stack).vals) = Len(Last(Top.stack).args)
    /\ LET o == execute_command(state_of(Top, TRUE), Last(Top.stack).name,
                                Last(Top.stack).vals)
       IN o.res = "Err" /\ o.kind.k = "Return"

Returned ==
    execute_command(state_of(Top, TRUE), Last(Top.stack).name, Last(Top.stack).vals).kind.v

C9_Step ==
    Returning =>
        IF Depth > 1
        THEN /\ phase' = "run"
             /\ error' = error
             /\ Len(frames') = Depth - 1
             /\ \A i \in 1..(Depth - 2) : frames'[i] = frames[i]
             /\ LET caller == frames[Depth - 1].stack IN
                IF Len(caller) = 1 THEN frames'[Depth - 1].stack = <<>>
                ELSE /\ Len(frames'[Depth - 1].stack) = Len(caller) - 1
                     /\ Last(frames'[Depth - 1].stack).vals =
                            Append(caller[Len(caller) - 1].vals, Returned)
        ELSE /\ phase' = "error"
             /\ error'.kind = Return(Returned)
             /\ Len(error'.trace) = 1

C9_TopLevelOnly ==
    (phase = "error" /\ error.kind.k = "Return") => (Depth = 1 /\ Len(error.trace) = 1)

C9_ReturnEnd ==
    (Ended /\ code = ReturnProgram) =>
        /\ phase = "error"
        /\ error = [trace |-> <<[line |-> 13, function |-> "_return"]>>,
                    kind |-> Return(Number(8))]
        /\ globals = [a |-> Number(5), b |-> Number(6), c |-> StringVal("56")]

\* C9: a Return raised inside a call ends exactly the top frame: the run goes
\* on, no error is recorded, the frames under the caller are untouched and the
\* value is the value of the calling command; a Return raised with no call
\* active ends the run with the Return as its error.
C9_Returns == [][C9_Step]_vars /\ []C9_TopLevelOnly /\ []C9_ReturnEnd

\* The return program has ended at its top-level _return, the three calls done.
C9_Witness ==
    /\ phase = "error"
    /\ code = ReturnProgram
    /\ error.kind = Return(Number(8))
    /\ "c" \in DOMAIN globals

(***************************************************************************)
(* Lists                                                                   *)
(***************************************************************************)
\* What a read through a list value yields.
Contents(v) == heap[v.n]

Bound(name) == name \in DOMAIN globals

\* C10: the global l, the global m set from it, the first element of the list
\* o built from it and the first argument of a call given it read the same
\* contents at every moment, whichever of them a push, pop, insert, remove or
\* replace went through.
C10_Aliases ==
    code \in ListPrograms =>
        /\ (Bound("l") /\ Bound("m")) => Contents(globals["m"]) = Contents(globals["l"])
        /\ (Bound("l") /\ Bound("o")) =>
              Contents(Contents(globals["o"])[1]) = Contents(globals["l"])
        /\ \A k \in 2..Depth :
              Contents(Contents(frames[k].locals[".args"])[1]) = Contents(globals["l"])

\* A push through m and a push through a call argument are both read through l.
C10_Witness ==
    /\ phase = "done"
    /\ code = ListProgram("push [m] 3", "call f [l]")
    /\ Contents(globals["l"]) = <<Number(1), Number(2), Number(3), Number(9)>>
    /\ Contents(globals["m"]) = Contents(globals["l"])


(***************************************************************************)
(* _clone                                                                  *)
(***************************************************************************)
\* What reading a value shows, the lists inside it included.
Shown(v) == fmt_value(v, heap)

\* The mutations that go through l (the others go through m).
ThroughL == {"push [l] 3", "pop [l]", "push (index [l] 1) 2", "push [i] 2"}

CloneEnd(mutations) ==
    \A mutation \in mutations :
        (phase = "done" /\ code = CloneProgram(mutation)) =>
            IF mutation \in ThroughL THEN Shown(globals["m"]) = "((1),5)"
            ELSE Shown(globals["l"]) = "((1),5)"

\* C11: after m is set to the _clone of l, a mutation through one of them, at
\* the top of the list or in the list it holds, leaves what the other shows
\* as it was.
C11_CloneIndependent == CloneEnd(CloneOuter \cup CloneInner)

\* The same for the mutations of the cloned list itself: these the clone keeps apart.
C11_CloneOuterIndependent == CloneEnd(CloneOuter)


(***************************************************************************)
(* eq                                                                      *)
(***************************************************************************)
\* The innermost pending command is name, with its nargs arguments evaluated.
Called(name, nargs) ==
    /\ Running
    /\ Top.stack # <<>>
    /\ Last(Top.stack).name = name
    /\ Len(Last(Top.stack).args) = nargs
    /\ Len(Last(Top.stack).vals) = nargs

Arg(i) == Last(Top.stack).vals[i]

\* The step hands the value v to the command around the innermost one.
Yields(v) ==
    /\ phase' = "run"
    /\ Len(frames') = Depth
    /\ Len(frames'[Depth].stack) = Len(Top.stack) - 1
    /\ Last(frames'[Depth].stack).vals = Append(Top.stack[Len(Top.stack) - 1].vals, v)

\* Equality as stated: lists of one length, equal position by position; numbers
\* by value; anything else by its text.
RECURSIVE Equal(_, _)
Equal(a, b) ==
    IF a.t = "List" /\ b.t = "List"
    THEN /\ Len(heap[a.n]) = Len(heap[b.n])
         /\ \A i \in 1..Len(heap[a.n]) : Equal(heap[a.n][i], heap[b.n][i])
    ELSE IF a.t = "Number" /\ b.t = "Number" THEN a.n = b.n
    ELSE Shown(a) = Shown(b)

C12_Step ==
    (Called("eq", 2) /\ Len(Top.stack) >= 2) => Yields(frombool(Equal(Arg(1), Arg(2))))

\* C12: `eq a b` is 1 when a and b are lists of the same length that are eq at
\* every position, or numbers of the same value, or (not both lists, not both
\* numbers) show the same text, and 0 otherwise.
C12_Eq == [][C12_Step]_vars


(***************************************************************************)
(* index                                                                   *)
(***************************************************************************)
\* The step ends the run with an error of variant k and changes no variable,
\* list or function.
Fails(k) ==
    /\ phase' = "error"
    /\ error'.kind.k = k
    /\ heap' = heap
    /\ globals' = globals
    /\ functions' = functions
    /\ \A d \in 1..Depth : frames'[d].locals = frames[d].locals

C13_Step ==
    (Called("index", 2) /\ Len(Top.stack) >= 2 /\ Arg(1).t = "List" /\ Arg(2).t = "Number") =>
        LET l == heap[Arg(1).n]
            i == Arg(2).n
        IN IF i \in 1..Len(l) THEN Yields(l[i]) /\ heap' = heap
           ELSE IF i = 0 THEN Fails("ZeroIndex")
           ELSE i > Len(l) => Fails("IndexError")

\* C13: `index l i` on a list of n items is the i-th item for i in 1..n (the
\* first for i = 1), the zero-index error for i = 0 and the out-of-bounds error
\* for i > n; the list is unchanged in every case.
C13_Index == [][C13_Step]_vars

\* Index 4 of a list of three items has failed.
C13_Witness ==
    /\ code = IndexProgram(3, 4)
    /\ phase = "error"
    /\ error.kind = IndexError(3, 3)
    /\ heap = <<<<Number(11), Number(12), Number(13)>>>>


(***************************************************************************)
(* Arity                                                                   *)
(***************************************************************************)
\* The number of arguments each fixed-arity command takes, the Lineptr of a
\* block command not counted.
Arity ==
    [name \in Fixed \cup {"if", "while", "define", "end if", "end while"} |->
        IF name \in {"end if", "end while"} THEN 0
        ELSE IF name \in {"not", "len", "pop", "_islist", "_clone", "_get", "_error",
                          "if", "while", "define"} THEN 1
        ELSE IF name \in {"insert", "replace"} THEN 3
        ELSE 2]

IsBlock(name) == name \in {"if", "while", "define", "end if", "end while"}

\* The innermost pending command has all its arguments: a normal command, or a
\* block command with the Lineptr the resolver gave it.
Dispatching ==
    /\ Running
    /\ Top.stack # <<>>
    /\ Len(Last(Top.stack).vals) = Len(Last(Top.stack).args)
    /\ Last(Top.stack).name \in DOMAIN Arity
    /\ IsBlock(Last(Top.stack).name) =>
          /\ Last(Top.stack).vals # <<>>
          /\ Last(Last(Top.stack).vals).t = "Lineptr"

Given ==
    Len(Last(Top.stack).vals) - (IF IsBlock(Last(Top.stack).name) THEN 1 ELSE 0)

C14_Step ==
    (Dispatching /\ Given # Arity[Last(Top.stack).name]) =>
        /\ Fails("ValueError")
        /\ error'.kind = ValueError(Arity[Last(Top.stack).name])
        /\ frames' = frames

C14_Sub ==
    (Ended /\ code = <<"set r (sub 5 3)">>) => (phase = "done" /\ globals = [r |-> Number(2)])

\* C14: a fixed-arity command given another number of arguments than its arity
\* (for a block command, not counting the Lineptr) fails with the arity error
\* naming its arity and changes no variable, list, function or program
\* counter; `sub 5 3` is 2.
C14_Arity == [][C14_Step]_vars /\ []C14_Sub

\* `sub` with three arguments has failed naming 2.
C14_Witness ==
    /\ code = <<"sub 1 1 1">>
    /\ phase = "error"
    /\ error.kind = ValueError(2)
    /\ error.trace = <<[line |-> 0, function |-> "sub"]>>


(***************************************************************************)
(* The function table                                                      *)
(***************************************************************************)
\* The key a `define` about to run binds.
DefineKey == "call " \o tostr(Arg(1), heap)

C15_Step ==
    /\ \A key \in DOMAIN functions :
          key \in DOMAIN functions' /\ functions'[key] = functions[key]
    /\ (Called("define", 2) /\ DefineKey \in DOMAIN functions) => Fails("FuncDefined")

\* C15: no step changes or removes an entry of the function table, and a
\* header for a name that is bound fails with the redefinition error.
C15_WriteOnce == [][C15_Step]_vars


(***************************************************************************)
(* Quoted literals                                                         *)
(***************************************************************************)
\* A quoted literal read with the escape: from position p of s, raw is the
\* text between the quotes as written and text the same with every
\* backslash-quote read as a quote.
RECURSIVE Escaped(_, _, _, _)
Escaped(s, p, raw, text) ==
    IF p > Len(s) THEN [ok |-> FALSE, raw |-> raw, text |-> text, end |-> p]
    ELSE IF CharAt(s, p) = "\\" /\ p < Len(s) /\ CharAt(s, p + 1) = "\""
    THEN Escaped(s, p + 2, raw \o "\\\"", text \o "\"")
    ELSE IF CharAt(s, p) = "\"" /\ (p = Len(s) \/ CharAt(s, p + 1) \in {" ", ")"})
    THEN [ok |-> TRUE, raw |-> raw, text |-> text, end |-> p]
    ELSE Escaped(s, p + 1, raw \o CharAt(s, p), text \o CharAt(s, p))

\* The literal of a quote program starts after `set x "`.
Literal == Escaped(code[1], 8, "", "")

\* Another quoted literal opens after the first one of a quote program.
OpensAnother ==
    \E i \in (Literal.end + 2)..Len(code[1]) :
        CharAt(code[1], i) = "\"" /\ CharAt(code[1], i - 1) = " "

\* C16: in a quoted literal a backslash-quote never ends the literal, whatever
\* follows it; the literal ends at the first other quote that a space, a
\* close-paren or the end of the line follows, and a line that ends before
\* such a quote is the StringEOL error.
C16_Quoted ==
    (code \in QuotePrograms /\ phase # "parse") =>
        IF Literal.ok
        THEN IF phase = "parse_error"
             THEN OpensAnother
             ELSE /\ lines[1].args[2].e = "Literal"
                  /\ lines[1].args[2].s \in {Literal.raw, Literal.text}
        ELSE /\ phase = "parse_error"
             /\ error.kind.k = "StringEOL"


(***************************************************************************)
(* Line-local parsing                                                      *)
(***************************************************************************)
\* A parsed line as it was before the blocks were resolved: without the line
\* pointer an opener or an `end` was given, and `end` under its own name.
Unresolved(cmd) ==
    IF cmd = NoLine THEN cmd
    ELSE IF cmd.s \in Openers THEN [cmd EXCEPT !.args = SubSeq(@, 1, Len(@) - 1)]
    ELSE IF Len(cmd.s) > 4 /\ SubSeq(cmd.s, 1, 4) = "end "
    THEN [cmd EXCEPT !.s = "end", !.args = SubSeq(@, 1, Len(@) - 1)]
    ELSE cmd

\* Every line of an accepted text is parsed as it is parsed alone.
ParsedAlone ==
    phase \in {"run", "done", "error", "panic"} =>
        \A N \in 1..Len(code) :
            /\ parse_line(code[N]).ok
            /\ Unresolved(lines[N]) = parse_line(code[N]).cmd

\* The error of a line is the error of that line alone, tagged with number.
TaggedAt(N, number) ==
    /\ N \in 1..Len(code)
    /\ ~parse_line(code[N]).ok
    /\ parse_line(code[N]).err = error.kind.k
    /\ lined_display(error.kind) = number

\* C17: parsing is line-local: a line is parsed to the same tree, or the same
\* syntax error, whatever the other lines are, and the error of a malformed
\* line is tagged with the number of that line, lines counted as the run-time
\* errors count them (the first line is line 1).
C17_LineLocal ==
    code \in TextPrograms =>
        /\ ParsedAlone
        /\ (phase = "parse_error" /\ error.kind.k \in ParseErrorLine) =>
               \E N \in 1..Len(code) : TaggedAt(N, run_error_display(N - 1))

\* What holds of the tag: it is the zero-based index of the first malformed
\* line, blank lines counted.
C17_TaggedWithIndex ==
    code \in TextPrograms =>
        /\ ParsedAlone
        /\ (phase = "parse_error" /\ error.kind.k \in ParseErrorLine) =>
               \E N \in 1..Len(code) :
                   /\ TaggedAt(N, N - 1)
                   /\ \A M \in 1..(N - 1) : parse_line(code[M]).ok


(***************************************************************************)
(* Exit status                                                             *)
(***************************************************************************)
\* C18: a run that ends without an unhandled error exits with status zero; a
\* run that ends with an unhandled run-time error prints the error and exits
\* with a status that is not zero.
C18_ExitStatus ==
    /\ phase = "done" => exit_status = 0
    /\ phase = "error" => (eprintln = <<error>> /\ exit_status # 0)

\* What holds of the exit status: it is zero after a run-time error too.
C18_ExitsZero ==
    /\ phase = "done" => (exit_status = 0 /\ eprintln = <<>>)
    /\ phase = "error" => (eprintln = <<error>> /\ exit_status = 0)


(***************************************************************************)
(* Function headers                                                        *)
(***************************************************************************)
\* The innermost pending command is a header the resolver gave its `end`,
\* with a name to define (and, for a function header, a parameter list).
HeaderOf(names) ==
    /\ Running
    /\ Top.stack # <<>>
    /\ Last(Top.stack).name \in names
    /\ Len(Top.stack) = 1
    /\ Len(Last(Top.stack).vals) = Len(Last(Top.stack).args)
    /\ Len(Last(Top.stack).vals) >= 2
    /\ Last(Last(Top.stack).vals).t = "Lineptr"
    /\ Last(Top.stack).name = "define" => Len(Last(Top.stack).vals) = 2
    /\ Last(Top.stack).name # "define" => Len(Last(Top.stack).vals) >= 3

\* The key the header binds: "call " + name for `define`, the name itself for
\* a function header.
HeaderKey ==
    IF Last(Top.stack).name = "define" THEN "call " \o tostr(Arg(1), heap)
    ELSE tostr(Arg(1), heap)

\* The step of a header for an unbound name: the table gains the key with
\* entry point header line + 1 and nothing else changes in it, and the flow
\* is at the line after the block's `end`, in the same frame.
HeaderStep(names) ==
    (HeaderOf(names) /\ HeaderKey \notin DOMAIN functions) =>
        /\ phase' = "run"
        /\ DOMAIN functions' = DOMAIN functions \cup {HeaderKey}
        /\ functions'[HeaderKey].lineno = Top.lineno + 1
        /\ \A key \in DOMAIN functions : functions'[key] = functions[key]
        /\ Len(frames') = Depth
        /\ frames'[Depth].stack = <<>>
        /\ frames'[Depth].lineno = Last(Last(Top.stack).vals).n + 1
        /\ lines[Last(Last(Top.stack).vals).n + 1].s = "end " \o Last(Top.stack).name
        /\ globals' = globals /\ heap' = heap
        /\ frames'[Depth].locals = Top.locals

\* Only the step of a header adds a key to the table.
OnlyHeaders(names) ==
    (DOMAIN functions' # DOMAIN functions) => HeaderOf(names)

\* A call of a key that is not in the table fails.
CallStep ==
    (Running /\ Top.stack # <<>> /\ Called("call", Len(Last(Top.stack).args))
        /\ Len(Last(Top.stack).vals) >= 1
        /\ ("call " \o tostr(Arg(1), heap)) \notin DOMAIN functions) => Fails("NotDefined")

\* The key frame d was invoked with, read off the command its caller waits in.
InvokedKey(d) ==
    LET p == Last(frames[d - 1].stack) IN
    IF p.name = "call" THEN "call " \o tostr(p.vals[1], heap)
    ELSE IF p.name = "_apply" THEN tostr(p.vals[1], heap)
    ELSE p.name

\* The header lines (as indices of lines) whose block holds line number n.
Around(names, n) ==
    {h \in 1..Len(lines) :
        /\ lines[h] # NoLine
        /\ lines[h].s \in names
        /\ lines[h].args # <<>>
        /\ Last(lines[h].args).e = "Lineptr"
        /\ n \in h..Last(lines[h].args).n}

\* A frame that is evaluating a line of a body (its `end` included) is a call
\* frame invoked with a key whose entry point is the first line of the
\* innermost body around that line.
BodyInCall(names) ==
    Running =>
        \A d \in 1..Depth :
            (frames[d].stack # <<>> /\ Around(names, frames[d].lineno) # {}) =>
                /\ d >= 2
                /\ InvokedKey(d) \in DOMAIN functions
                /\ \E h \in Around(names, frames[d].lineno) :
                      /\ \A g \in Around(names, frames[d].lineno) : g <= h
                      /\ functions[InvokedKey(d)].lineno = h

\* C19: executing a function or define header records the function with entry
\* point header line + 1 and continues after the block's `end`; a line of the
\* body is only ever evaluated by a call frame of that function; and the
\* function can be called only once its header was executed.
C19_Headers ==
    /\ [][HeaderStep({"define", "_func", "_cmd"}) /\ OnlyHeaders({"define", "_func", "_cmd"})
          /\ CallStep]_vars
    /\ []BodyInCall({"define", "_func", "_cmd"})

\* What holds: the same of the `define` header alone.
C19_Define ==
    /\ [][HeaderStep({"define"}) /\ OnlyHeaders({"define"}) /\ CallStep]_vars
    /\ []BodyInCall({"define"})


(***************************************************************************)
(* Argument evaluation                                                     *)
(***************************************************************************)
\* Every pending command that waits for an argument waits for the first one
\* it has no value for, and the command above it is that argument.
ArgsInOrder ==
    Running =>
        \A d \in 1..Depth : \A j \in 1..Len(frames[d].stack) :
            LET p == frames[d].stack[j] IN
            /\ Len(p.vals) <= Len(p.args)
            /\ j < Len(frames[d].stack) =>
                  /\ Len(p.vals) < Len(p.args)
                  /\ p.args[Len(p.vals) + 1].e = "Command"
                  /\ frames[d].stack[j + 1].name = p.args[Len(p.vals) + 1].s
                  /\ frames[d].stack[j + 1].args = p.args[Len(p.vals) + 1].args

\* While a command lacks an argument no command is dispatched: the step
\* writes nothing, and it gives the command the value of its next argument,
\* starts the command that argument is, or fails.
ArgStep ==
    (Running /\ Top.stack # <<>> /\ Len(Last(Top.stack).vals) < Len(Last(Top.stack).args)) =>
        LET p == Last(Top.stack)
            x == p.args[Len(p.vals) + 1]
        IN /\ globals' = globals /\ heap' = heap /\ functions' = functions
           /\ Len(frames') = Depth
           /\ \A d \in 1..Depth : frames'[d].locals = frames[d].locals
           /\ \A d \in 1..Depth : frames'[d].lineno = frames[d].lineno
           /\ \/ /\ phase' = "error"
                 /\ x.e = "Variable"
                 /\ frames' = frames
              \/ /\ phase' = "run"
                 /\ x.e = "Command"
                 /\ frames'[Depth].stack = Append(Top.stack, Pending(x.s, x.args))
              \/ /\ phase' = "run"
                 /\ x.e # "Command"
                 /\ Front(frames'[Depth].stack) = Front(Top.stack)
                 /\ Len(Last(frames'[Depth].stack).vals) = Len(p.vals) + 1
                 /\ Front(Last(frames'[Depth].stack).vals) = p.vals

\* A pending command that is still there after a step has the values it had,
\* and at most one more.
GrowStep ==
    (Running /\ phase' = "run") =>
        \A d \in 1..Depth : \A j \in 1..Len(frames[d].stack) :
            (d <= Len(frames') /\ j <= Len(frames'[d].stack)) =>
                LET p == frames[d].stack[j]
                    q == frames'[d].stack[j]
                IN /\ q.name = p.name /\ q.args = p.args
                   /\ Len(q.vals) \in {Len(p.vals), Len(p.vals) + 1}
                   /\ SubSeq(q.vals, 1, Len(p.vals)) = p.vals

\* The numbers 1..n in order.
Upto(n) == [i \in 1..n |-> Number(i)]

\* The list the global l names.
ListL == heap[globals["l"].n]

\* The run of ArgProgram(n, k): without a failing argument every push is made
\* once, in order, and r is set; with one, the pushes before it are made and
\* kept, those after it are not, and neither `list` nor `set` is run.
ArgEnd ==
    \A n \in 1..MaxItems, k \in 0..MaxItems :
        (Ended /\ code = ArgProgram(n, k)) =>
            IF k = 0 \/ k > n
            THEN /\ phase = "done"
                 /\ ListL = Upto(n)
                 /\ "r" \in DOMAIN globals
                 /\ Len(heap[globals["r"].n]) = n
            ELSE /\ phase = "error"
                 /\ error.kind = NameError("nope")
                 /\ ListL = Upto(k - 1)
                 /\ "r" \notin DOMAIN globals
                 /\ Len(heap) = 1

\* The same with arguments inside arguments, and with a function definition
\* and a global written by arguments before the failing one.
NestedEnd ==
    (Ended /\ code \in NestedPrograms) =>
        IF Len(code) = 2
        THEN phase = "done" /\ ListL = Upto(3)
        ELSE /\ phase = "error"
             /\ ListL = Upto(1)
             /\ DOMAIN functions = {"call h", "call f"}
             /\ DOMAIN globals = {"l", "a"}
             /\ globals["a"] = Number(5)

\* C20: the arguments of a command are evaluated left to right and depth
\* first, each once, before the command is dispatched; when argument k fails,
\* what the arguments before it and the earlier lines did stays, the
\* arguments after it are not evaluated and the command is not dispatched.
C20_Arguments ==
    /\ [][ArgStep /\ GrowStep]_vars
    /\ [](ArgsInOrder /\ ArgEnd /\ NestedEnd)

\* Argument 3 of 3 failed: the two pushes before it are in l, r is not set.
C20_Witness ==
    /\ code = ArgProgram(3, 3)
    /\ phase = "error"
    /\ ListL = Upto(2)
    /\ "r" \notin DOMAIN globals


(***************************************************************************)
(* Backtraces                                                              *)
(***************************************************************************)
\* The expression holds a command of that name, at any depth.
RECURSIVE Mentions(_, _)
Mentions(expr, name) ==
    /\ expr.e = "Command"
    /\ \/ expr.s = name
       \/ \E i \in 1..Len(expr.args) : Mentions(expr.args[i], name)

\* The step ends the run with an error: it is reported as one context for
\* every frame, outermost first.  The context of a calling frame is the line
\* the call was made from (the line saved when the frame above it was made)
\* and the command on that line that made the call; the innermost context is
\* the top frame's line and the command, or variable reference `[]`, that
\* failed.  No frame is popped and nothing is written.
C21_Step ==
    (Running /\ phase' = "error") =>
        /\ Len(error'.trace) = Depth
        /\ error'.kind.k \notin {"None", "Wrap", "IsNotBuiltIn"}
        /\ error'.kind.k = "Return" => Depth = 1
        /\ \A i \in 1..(Depth - 1) :
              /\ error'.trace[i].line = frames[i + 1].saved.lineno
              /\ error'.trace[i].line = frames[i].lineno
              /\ error'.trace[i].function = Last(frames[i].stack).name
              /\ Len(Last(frames[i].stack).vals) = Len(Last(frames[i].stack).args)
              /\ Mentions(lines[error'.trace[i].line + 1], error'.trace[i].function)
        /\ error'.trace[Depth].line = Top.lineno
        /\ Top.stack # <<>>
        /\ \/ error'.trace[Depth].function = Last(Top.stack).name
           \/ /\ error'.trace[Depth].function = "[]"
              /\ error'.kind.k = "NameError"
        /\ Len(frames') = Depth
        /\ \A i \in 1..Depth : frames'[i].locals = frames[i].locals

\* An error is not caught: a run that has ended with one takes no more steps.
C21_Final == phase = "error" => (phase' = "error" /\ error' = error)

\* The backtrace of the trace programs: the top-level line, the line of f
\* that calls g, the line of g that fails; nothing after the call has run.
C21_TraceEnd ==
    \A failing \in {"(sub a 1)", "[nope]", "(_error boom)"},
       calling \in {"call g", "_apply \"call g\" (list)"} :
        (Ended /\ code = TraceProgram(failing, calling)) =>
            /\ phase = "error"
            /\ error.trace =
                  <<[line |-> 8, function |-> "call"],
                    [line |-> 5, function |-> IF calling = "call g" THEN "call" ELSE "_apply"],
                    [line |-> 1, function |-> IF failing = "(sub a 1)" THEN "sub"
                                              ELSE IF failing = "[nope]" THEN "[]"
                                              ELSE "_error"]>>
            /\ error.kind.k = (IF failing = "(sub a 1)" THEN "IsNotNumber"
                               ELSE IF failing = "[nope]" THEN "NameError"
                               ELSE "UserError")
            /\ DOMAIN globals = {"y"}

\* C21: a run-time error raised while d call frames are active is reported as
\* d + 1 contexts, outermost first: each calling frame's call-site line and
\* calling command, then the line and command where the error arose; no frame
\* swallows, replaces or retries it.
C21_Backtrace == [][C21_Step /\ C21_Final]_vars /\ []C21_TraceEnd

\* An error two calls deep has ended the run with three contexts.
C21_Witness ==
    /\ code \in TracePrograms
    /\ phase = "error"
    /\ Len(error.trace) = 3
    /\ Depth = 3


(***************************************************************************)
(* remove                                                                  *)
(***************************************************************************)
C23_Step ==
    (Called("remove", 2) /\ Len(Top.stack) >= 2 /\ Arg(1).t = "List"
        /\ Arg(2).t = "Number" /\ Arg(2).n >= 1) =>
        LET l == heap[Arg(1).n]
            i == Arg(2).n
        IN IF i <= Len(l)
           THEN /\ Yields(l[i])
                /\ heap' = [heap EXCEPT ![Arg(1).n] =
                               SubSeq(l, 1, i - 1) \o SubSeq(l, i + 1, Len(l))]
           ELSE /\ Fails("IndexError")
                /\ error'.trace = <<[line |-> Top.lineno, function |-> "remove"]>>

\* C23: `remove L i` with i greater than the length of L fails with the
\* index-out-of-bounds error, with its line and command, and leaves L as it
\* is, never aborting the interpreter; with 1 <= i <= length it removes the
\* i-th element and returns it.
C23_Remove == [][C23_Step]_vars

\* What holds: inside the list `remove` does as stated.
C23_RemoveInside ==
    [][(Called("remove", 2) /\ Len(Top.stack) >= 2 /\ Arg(1).t = "List"
        /\ Arg(2).t = "Number" /\ Arg(2).n \in 1..Len(heap[Arg(1).n])) => C23_Step]_vars


(***************************************************************************)
(* The `end` of a `while`                                                  *)
(***************************************************************************)
\* The top frame is at the `end` of a `while` block, with no argument but the
\* line pointer of its opener.
AtEndWhile ==
    /\ Called("end while", 1)
    /\ Len(Top.stack) = 1
    /\ Arg(1).t = "Lineptr"

C22_Step ==
    AtEndWhile =>
        /\ phase' = "run"
        /\ Len(frames') = Depth
        /\ frames'[Depth].stack = <<>>
        /\ frames'[Depth].lineno = Arg(1).n
        /\ lines[frames'[Depth].lineno + 1].s = "while"

\* C22: the `end` of a `while` block returns control to its opener wherever
\* the opener is, the first line of the program (line index 0) included: the
\* subtraction of one from the opener's line never underflows or aborts, and
\* the next line evaluated is the `while`.
C22_EndWhile == [][C22_Step]_vars

\* What holds: the same for an opener on any line but the first.
C22_EndWhileLater == [][(AtEndWhile /\ Arg(1).n > 0) => C22_Step]_vars


(***************************************************************************)
(* Line pointers                                                           *)
(***************************************************************************)
\* The names of the lines the resolver gives a line pointer.
Annotated == Openers \cup {"end " \o opener : opener \in Openers}

\* No variable, list element or bound argument list holds a line pointer, and
\* no error carries one.
NoLineptrStored ==
    /\ \A name \in DOMAIN globals : globals[name].t # "Lineptr"
    /\ \A d \in 1..Depth : \A name \in DOMAIN frames[d].locals :
          frames[d].locals[name].t # "Lineptr"
    /\ \A h \in 1..Len(heap) : \A i \in 1..Len(heap[h]) : heap[h][i].t # "Lineptr"
    /\ error.kind.v.t # "Lineptr"

\* A value a command was given or an argument result that is a line pointer
\* is the last argument of the whole line, a line the resolver annotated,
\* and stands where the resolver put it.
LineptrOnlyAnnotated ==
    \A d \in 1..Depth : \A j \in 1..Len(frames[d].stack) :
        LET p == frames[d].stack[j] IN
        \A i \in 1..Len(p.vals) :
            p.vals[i].t = "Lineptr" =>
                /\ j = 1
                /\ i = Len(p.args)
                /\ p.args[i].e = "Lineptr"
                /\ p.name \in Annotated
                /\ lines[frames[d].lineno + 1] # NoLine
                /\ lines[frames[d].lineno + 1].s = p.name
                /\ lines[frames[d].lineno + 1].args = p.args

\* C24: a line pointer is never visible to the program.  In every state no
\* global or local variable, list element, bound argument list or command
\* result holds one; the only commands given one are the block commands of
\* the lines the resolver annotated, as their last argument, which is taken
\* off before anything else is done with the arguments.
C24_LineptrHidden == NoLineptrStored /\ LineptrOnlyAnnotated

\* Inside a call, the `end` of the function has its value and its line
\* pointer, and the caller is about to store the result.
C24_Witness ==
    /\ Running
    /\ Depth >= 2
    /\ Called("end define", 2)
    /\ Arg(2).t = "Lineptr"
    /\ Last(frames[Depth - 1].stack).name = "call"
    /\ Len(frames[Depth - 1].stack) >= 2


(***************************************************************************)
(* The program counter of a call frame                                     *)
(***************************************************************************)
\* The entry line of the function frame d was invoked for.
Entry(d) == functions[InvokedKey(d)].lineno

\* The `end` line of the block that starts at that entry line.
BlockEnd(d) == Last(lines[Entry(d)].args).n

\* C25: in a program the resolver accepts, whenever the loop of a call frame
\* reads the line at its program counter, the counter is less than the number
\* of lines and lies between the entry line of the function and the `end`
\* line of its block: a call frame never runs past the end of the program or
\* out of its own block.
C25_FrameInBlock ==
    Running =>
        \A d \in 2..Depth :
            /\ InvokedKey(d) \in DOMAIN functions
            /\ Entry(d) >= 1
            /\ lines[Entry(d)] # NoLine
            /\ lines[Entry(d)].s = "define"
            /\ frames[d].lineno < Len(lines)
            /\ frames[d].lineno >= Entry(d)
            /\ frames[d].lineno <= BlockEnd(d)
            /\ lines[BlockEnd(d) + 1].s = "end define"

\* A call frame is about to read the line after a loop in the body of its
\* function has sent it back.
C25_Witness ==
    /\ code \in FramePrograms
    /\ Running
    /\ Depth = 2
    /\ Top.stack = <<>>
    /\ lines[Top.lineno + 1] # NoLine
    /\ lines[Top.lineno + 1].s = "while"
    /\ "n" \in DOMAIN globals /\ globals["n"] = Number(0)


(***************************************************************************)
(* _apply and the list of its arguments                                    *)
(***************************************************************************)
\* C26: while a command invoked through `_apply name L` runs, L stays usable:
\* the command may read or change L through a global that holds it or through
\* L being an element of itself, the run does not abort, and no list
\* operation fails because the list is in use by an enclosing operation.
C26_ApplyUsable ==
    code \in ApplyPrograms =>
        /\ phase # "panic"
        /\ Ended => phase = "done"

\* What holds: the same when nothing the command reaches is the list L.
C26_ApplyUnaliased ==
    code \in (ApplyPrograms \ AliasedApplyPrograms) =>
        /\ phase # "panic"
        /\ Ended => (phase = "done" /\ heap[globals["a"].n] = <<Number(1), Number(2)>>
                     /\ globals["r"] = Number(2))

====
